---- MODULE Spec2Model ----
(***************************************************************************)
(* A model of DICOM2NII-Pro's batch orchestration core:                    *)
(* src/src/core/conversion_manager.py (ConversionManager, ConversionTask,  *)
(* ConversionStats).  The priority queue is CPython's queue.PriorityQueue: *)
(* a binary heap of (-priority, created_time, task) tuples kept by the     *)
(* _heapq accelerator.                                                     *)
(***************************************************************************)
EXTENDS Integers, Sequences, FiniteSets, TLC

\* ------------------------------------------------------------------ bounds
\* the number of add_task calls of a behaviour
MaxTasks == 2
\* the largest value datetime.now() returns
MaxClock == 2
\* the number of add_task calls made before the workers are started
QueueTasks == 7
\* the length of the list given to submit_batch_conversion
MaxBatch == 3
\* the number of files _find_dicom_files finds under the scanned directory
MaxFiles == 5

\* Optional[datetime] = None (started_time, completed_time); clock values are >= 1
NoTime == 0
\* a worker that holds no task
NoTask == 0

\* worker threads, in the order start_workers creates them
WorkerOrder == <<"w1", "w2">>
Workers == {WorkerOrder[i] : i \in 1..Len(WorkerOrder)}
\* threads that call add_task
Callers == {"c1", "c2"}
\* the priorities callers pass to add_task
Priorities == {1, 5}
\* results of converter.convert_to_nifti: True, False, an exception
Outcomes == {"ok", "false", "raise"}
\* keep_recent arguments of cleanup_completed_tasks
KeepChoices == 0..2

VARIABLES
    clock,            \* the last value datetime.now() returned
    task_counter,     \* ConversionManager.task_counter
    tasks,            \* the ConversionTask objects, in creation order
    task_queue,       \* ConversionManager.task_queue: the heap's list (of task objects)
    active_tasks,     \* ConversionManager.active_tasks: the keys (task ids)
    completed_tasks,  \* ConversionManager.completed_tasks: the keys, in insertion order
    stats,            \* ConversionManager.stats
    pause_event,      \* threading.Event: set = running
    shutdown_event,   \* threading.Event
    pc,               \* each worker's position in _worker_thread / _process_task
    holding,          \* the task each worker dequeued
    started_count,    \* per task: how many times _process_task marked it running
    cancel_pending,   \* queued tasks cancel_task has been called for
    add_raised,       \* number of add_task calls that raised
    wait_pc,          \* wait_for_completion: "idle", "polling", "true", "false"
    wait_base,        \* task_counter when wait_for_completion was called
    add_call,         \* each caller's position in add_task and its locals
    returned,         \* the ids add_task calls have returned, in order of return
    ureg,             \* each worker's operands inside update_completion
    cleanup_pc,       \* cleanup_completed_tasks: "idle", "sorted"
    tasks_to_keep,    \* cleanup_completed_tasks' local of that name
    call,             \* a call in progress besides the above: its name, arguments, locals
    ret               \* what that call returned or raised

vars == <<clock, task_counter, tasks, task_queue, active_tasks, completed_tasks,
          stats, pause_event, shutdown_event, pc, holding,
          started_count, cancel_pending, add_raised, wait_pc, wait_base,
          add_call, returned, ureg, cleanup_pc, tasks_to_keep, call, ret>>

\* the locals of add_task, update_completion and cleanup_completed_tasks
addVars == <<add_call, returned>>
cleanupVars == <<cleanup_pc, tasks_to_keep>>
waitVars == <<wait_pc, wait_base>>
eventVars == <<pause_event, shutdown_event>>
callVars == <<call, ret>>

\* ----------------------------------------------------------------- helpers
Min(a, b) == IF a <= b THEN a ELSE b

Range(s) == {s[i] : i \in 1..Len(s)}

\* the largest id of a sequence of ids, 0 when there is none
MaxOf(s) == IF s = <<>> THEN 0 ELSE CHOOSE m \in Range(s) : \A x \in Range(s) : x <= m

\* datetime.now(): time does not go back, and may not have advanced since the
\* last reading (the clock's resolution)
NowValues == clock..Min(clock + 1, MaxClock)

Terminal == {"completed", "failed", "cancelled"}

\* Optional[str] = None (error_message)
NoMessage == "None"

\* ConversionTask(...) as add_task constructs it; progress, a float, is kept
\* as the pair <<numerator, denominator>>
NewTask(id, p, t) ==
    [task_id |-> id, priority |-> p, created_time |-> t,
     started_time |-> NoTime, completed_time |-> NoTime,
     status |-> "pending", progress |-> <<0, 1>>,
     error_message |-> NoMessage]

\* ConversionStats()
NewStats ==
    [total_tasks |-> 0, completed_tasks |-> 0, failed_tasks |-> 0,
     cancelled_tasks |-> 0, total_processing_time |-> 0,
     average_time_per_task |-> <<0, 1>>]

\* a caller that is not inside add_task
IdleCall == [pc |-> "idle", reg |-> 0, id |-> 0, floor |-> 0]

\* a worker that is not inside update_completion
NoOperands == [field |-> "none", a |-> 0, b |-> 0]

\* ------------------------------------------------------- the priority queue
\* item < item for the queue's items (-priority, created_time, task), T the
\* task objects: tuples compare element by element; two distinct ConversionTask
\* objects are unequal (dataclass __eq__) and unordered (no __lt__): TypeError
Cmp(T, a, b) ==
    IF -T[a].priority < -T[b].priority THEN "lt"
    ELSE IF -T[a].priority > -T[b].priority THEN "ge"
    ELSE IF T[a].created_time < T[b].created_time THEN "lt"
    ELSE IF T[a].created_time > T[b].created_time THEN "ge"
    ELSE IF a = b THEN "ge"
    ELSE "raise"

Swap(h, i, j) == [h EXCEPT ![i] = h[j], ![j] = h[i]]

\* _heapq.c siftdown(heap, startpos, pos), positions from 1: the item at pos
\* moves up while it is less than its parent
RECURSIVE SiftDown(_, _, _, _)
SiftDown(T, h, startpos, pos) ==
    IF pos <= startpos THEN [heap |-> h, raised |-> FALSE]
    ELSE LET parent == pos \div 2
             c == Cmp(T, h[pos], h[parent])
         IN  IF c = "raise" THEN [heap |-> h, raised |-> TRUE]
             ELSE IF c = "ge" THEN [heap |-> h, raised |-> FALSE]
             ELSE SiftDown(T, Swap(h, pos, parent), startpos, parent)

\* _heapq.c siftup(heap, pos): the smaller child moves up until pos is a leaf,
\* then the item is sifted down from there
RECURSIVE SiftUp(_, _, _, _)
SiftUp(T, h, startpos, pos) ==
    IF pos > Len(h) \div 2 THEN SiftDown(T, h, startpos, pos)
    ELSE LET left == 2 * pos
             c == IF left + 1 <= Len(h) THEN Cmp(T, h[left], h[left + 1]) ELSE "lt"
             child == IF c = "lt" THEN left ELSE left + 1
         IN  IF c = "raise" THEN [heap |-> h, raised |-> TRUE]
             ELSE SiftUp(T, Swap(h, pos, child), startpos, child)

\* heapq.heappush(heap, item): append, then sift; the item stays in the list
\* when a comparison raises
HeapPush(T, h, item) == SiftDown(T, Append(h, item), 1, Len(h) + 1)

\* heapq.heappop(heap): the last item replaces the first, which is returned;
\* when a comparison raises the first item is dropped and nothing is returned
HeapPop(T, h) ==
    LET last == h[Len(h)]
        rest == SubSeq(h, 1, Len(h) - 1)
    IN  IF rest = <<>> THEN [heap |-> rest, item |-> last, raised |-> FALSE]
        ELSE LET r == SiftUp(T, [rest EXCEPT ![1] = last], 1, 1)
             IN  [heap |-> r.heap, item |-> h[1], raised |-> r.raised]

\* ------------------------------------------------------------ construction
\* the fields ConversionManager.__init__ sets (lines 90-109)
Fields ==
    /\ clock = 1
    /\ task_counter = 0
    /\ tasks = <<>>
    /\ task_queue = <<>>
    /\ active_tasks = {}
    /\ completed_tasks = <<>>
    /\ stats = NewStats
    /\ holding = [w \in Workers |-> NoTask]
    /\ started_count = <<>>
    /\ cancel_pending = {}
    /\ add_raised = 0
    /\ wait_pc = "idle"
    /\ wait_base = 0
    /\ add_call = [c \in Callers |-> IdleCall]
    /\ returned = <<>>
    /\ ureg = [w \in Workers |-> NoOperands]
    /\ cleanup_pc = "idle"
    /\ tasks_to_keep = <<>>

\* no other call in progress
NoCall == [fn |-> "none"]

\* ConversionManager(max_workers = 2, auto_start = True): start_workers has
\* cleared shutdown_event, set pause_event and started the worker threads
Init ==
    /\ Fields
    /\ call = NoCall
    /\ ret = NoCall
    /\ pause_event = TRUE
    /\ shutdown_event = FALSE
    /\ pc = [w \in Workers |-> "wait"]

\* ConversionManager(auto_start = False): no worker thread yet, both events clear
InitNotStarted ==
    /\ Fields
    /\ call = NoCall
    /\ ret = NoCall
    /\ pause_event = FALSE
    /\ shutdown_event = FALSE
    /\ pc = [w \in Workers |-> "off"]

\* start_workers() of a manager built with max_workers = n
StartWorkers(n) ==
    /\ \A w \in Workers : pc[w] = "off"
    /\ shutdown_event' = FALSE
    /\ pause_event' = TRUE
    /\ pc' = [w \in Workers |->
                 IF \E i \in 1..n : WorkerOrder[i] = w THEN "wait" ELSE "off"]
    /\ UNCHANGED <<clock, task_counter, tasks, task_queue, active_tasks,
                   completed_tasks, stats, holding, started_count, cancel_pending,
                   add_raised, waitVars, addVars, ureg, cleanupVars, callVars>>

\* ------------------------------------------------------------ caller's calls
\* add_task(..., priority = p) of a manager whose callers call it from one
\* thread: no other thread touches task_counter or stats.total_tasks, and the
\* queue's put is atomic (the queue's mutex), so the call is one step
AddTaskCall(p) ==
    /\ \E t \in NowValues :
         LET id == task_counter + 1
             T == Append(tasks, NewTask(id, p, t))
             r == HeapPush(T, task_queue, Len(T))
         IN  /\ clock' = t
             /\ task_counter' = id
             /\ tasks' = T
             /\ started_count' = Append(started_count, 0)
             /\ task_queue' = r.heap
             /\ IF r.raised
                THEN add_raised' = add_raised + 1 /\ UNCHANGED stats
                ELSE stats' = [stats EXCEPT !.total_tasks = @ + 1]
                     /\ UNCHANGED add_raised
    /\ UNCHANGED <<active_tasks, completed_tasks, eventVars, pc, holding,
                   cancel_pending, waitVars, addVars, ureg, cleanupVars>>

\* add_task called directly
AddTask(p) == AddTaskCall(p) /\ UNCHANGED callVars

\* BatchProcessor.submit_batch_conversion, lines 304-316: the cleaned task
\* dictionaries; a task dictionary is the set of its 'priority' values (empty
\* without that key) and a task without the key gets priority 0.  Then
\* add_batch_tasks is entered with an empty task_ids (line 205)
CleanPriority(t) == IF t = {} THEN 0 ELSE CHOOSE p \in t : TRUE

SubmitBatchConversion ==
    /\ call.fn = "submit_batch_conversion"
    /\ call' = [fn |-> "add_batch_tasks",
                tasks |-> [k \in 1..Len(call.tasks) |-> CleanPriority(call.tasks[k])],
                i |-> 1, task_ids |-> <<>>]
    /\ UNCHANGED <<clock, task_counter, tasks, task_queue, active_tasks,
                   completed_tasks, stats, eventVars, pc, holding, started_count,
                   cancel_pending, add_raised, waitVars, addVars, ureg,
                   cleanupVars, ret>>

\* add_batch_tasks, lines 207-209: one round of the loop; an exception of
\* add_task ends the call and the ids collected so far are not returned
AddBatchStep ==
    /\ call.fn = "add_batch_tasks"
    /\ call.i <= Len(call.tasks)
    /\ AddTaskCall(call.tasks[call.i])
    /\ IF add_raised' # add_raised
       THEN /\ call' = NoCall
            /\ ret' = [fn |-> "add_batch_tasks", raised |-> TRUE, task_ids |-> <<>>]
       ELSE /\ call' = [call EXCEPT !.i = @ + 1,
                                    !.task_ids = Append(@, task_counter')]
            /\ UNCHANGED ret

\* add_batch_tasks, lines 211-212: return task_ids
AddBatchReturn ==
    /\ call.fn = "add_batch_tasks"
    /\ call.i > Len(call.tasks)
    /\ call' = NoCall
    /\ ret' = [fn |-> "add_batch_tasks", raised |-> FALSE, task_ids |-> call.task_ids]
    /\ UNCHANGED <<clock, task_counter, tasks, task_queue, active_tasks,
                   completed_tasks, stats, eventVars, pc, holding, started_count,
                   cancel_pending, add_raised, waitVars, addVars, ureg,
                   cleanupVars>>

\* add_task called from several threads, statement by statement.
\* Line 175, self.task_counter += 1: the load
AddLoadCounter(c) ==
    /\ add_call[c].pc = "idle"
    /\ add_call' = [add_call EXCEPT ![c] =
                       [pc |-> "inc", reg |-> task_counter, id |-> 0,
                        floor |-> MaxOf(returned)]]
    /\ UNCHANGED <<clock, task_counter, tasks, task_queue, active_tasks,
                   completed_tasks, stats, eventVars, pc, holding, started_count,
                   cancel_pending, add_raised, waitVars, returned, ureg,
                   cleanupVars, callVars>>

\* line 175: the store
AddStoreCounter(c) ==
    /\ add_call[c].pc = "inc"
    /\ task_counter' = add_call[c].reg + 1
    /\ add_call' = [add_call EXCEPT ![c].pc = "made"]
    /\ UNCHANGED <<clock, tasks, task_queue, active_tasks, completed_tasks, stats,
                   eventVars, pc, holding, started_count, cancel_pending,
                   add_raised, waitVars, returned, ureg, cleanupVars, callVars>>

\* lines 176-189: the id is formatted from task_counter as it is now, the task
\* is constructed and put in the queue; a TypeError of the heap ends the call
AddPut(c, p) ==
    /\ add_call[c].pc = "made"
    /\ \E t \in NowValues :
         LET T == Append(tasks, NewTask(task_counter, p, t))
             r == HeapPush(T, task_queue, Len(T))
         IN  /\ clock' = t
             /\ tasks' = T
             /\ started_count' = Append(started_count, 0)
             /\ task_queue' = r.heap
             /\ IF r.raised
                THEN /\ add_raised' = add_raised + 1
                     /\ add_call' = [add_call EXCEPT ![c] = IdleCall]
                ELSE /\ add_call' = [add_call EXCEPT ![c].pc = "put",
                                                     ![c].id = task_counter]
                     /\ UNCHANGED add_raised
    /\ UNCHANGED <<task_counter, active_tasks, completed_tasks, stats, eventVars,
                   pc, holding, cancel_pending, waitVars, returned, ureg,
                   cleanupVars, callVars>>

\* line 190, self.stats.total_tasks += 1: the load
AddLoadTotal(c) ==
    /\ add_call[c].pc = "put"
    /\ add_call' = [add_call EXCEPT ![c].pc = "count", ![c].reg = stats.total_tasks]
    /\ UNCHANGED <<clock, task_counter, tasks, task_queue, active_tasks,
                   completed_tasks, stats, eventVars, pc, holding, started_count,
                   cancel_pending, add_raised, waitVars, returned, ureg,
                   cleanupVars, callVars>>

\* line 190: the store; line 193: return task_id
AddReturn(c) ==
    /\ add_call[c].pc = "count"
    /\ stats' = [stats EXCEPT !.total_tasks = add_call[c].reg + 1]
    /\ returned' = Append(returned, add_call[c].id)
    /\ add_call' = [add_call EXCEPT ![c] = IdleCall]
    /\ UNCHANGED <<clock, task_counter, tasks, task_queue, active_tasks,
                   completed_tasks, eventVars, pc, holding, started_count,
                   cancel_pending, add_raised, waitVars, ureg, cleanupVars, callVars>>

\* the add_task calls made so far
AddCalls ==
    Len(returned) + add_raised + Cardinality({c \in Callers : add_call[c].pc # "idle"})

\* cancel_task(task_id).  The maps are keyed by task id; add_task, called from
\* one thread, gives the task object tasks[i] the id i.
CancelTask(id) ==
    /\ IF id \in active_tasks
       THEN /\ tasks' = [tasks EXCEPT ![id].status = "cancelled"]
            /\ UNCHANGED cancel_pending
       ELSE /\ cancel_pending' =
                   IF id \in Range(task_queue)
                   THEN cancel_pending \cup {id}
                   ELSE cancel_pending
            /\ UNCHANGED tasks
    /\ UNCHANGED <<clock, task_counter, task_queue, active_tasks, completed_tasks,
                   stats, eventVars, pc, holding, started_count, add_raised,
                   waitVars, addVars, ureg, cleanupVars, callVars>>

\* get_task_status(task_id): the task's id, NoTask for None
GetTaskStatus(id) ==
    IF id \in active_tasks THEN id
    ELSE IF id \in Range(completed_tasks) THEN id
    ELSE NoTask

\* ------------------------------------------------------------ worker threads
\* WorkerGet with a get that returns the first item and leaves it in the queue
WorkerGetKeepsItem(w) ==
    /\ pc[w] = "wait"
    /\ pause_event
    /\ ~shutdown_event
    /\ task_queue # <<>>
    /\ pc' = [pc EXCEPT ![w] = "got"]
    /\ holding' = [holding EXCEPT ![w] = task_queue[1]]
    /\ UNCHANGED <<clock, task_counter, tasks, task_queue, active_tasks,
                   completed_tasks, stats, eventVars, started_count,
                   cancel_pending, add_raised, waitVars, addVars, ureg,
                   cleanupVars, callVars>>

\* _worker_thread: past the pause gate and the shutdown check, task_queue.get
\* returns an item; a TypeError raised by the heap is caught by the loop's
\* except clause and the loop goes on
WorkerGet(w) ==
    /\ pc[w] = "wait"
    /\ pause_event
    /\ ~shutdown_event
    /\ task_queue # <<>>
    /\ LET r == HeapPop(tasks, task_queue)
       IN  /\ task_queue' = r.heap
           /\ IF r.raised
              THEN UNCHANGED <<pc, holding>>
              ELSE /\ pc' = [pc EXCEPT ![w] = "got"]
                   /\ holding' = [holding EXCEPT ![w] = r.item]
    /\ UNCHANGED <<clock, task_counter, tasks, active_tasks, completed_tasks,
                   stats, eventVars, started_count, cancel_pending, add_raised,
                   waitVars, addVars, ureg, cleanupVars, callVars>>

\* _process_task, lines 301-305: stamp, mark running, register as active
WorkerStart(w) ==
    /\ pc[w] = "got"
    /\ \E t \in NowValues :
         /\ clock' = t
         /\ tasks' = [tasks EXCEPT ![holding[w]].started_time = t,
                                   ![holding[w]].status = "running",
                                   ![holding[w]].progress = <<0, 1>>]
    /\ active_tasks' = active_tasks \cup {tasks[holding[w]].task_id}
    /\ started_count' = [started_count EXCEPT ![holding[w]] = @ + 1]
    /\ cancel_pending' = cancel_pending \ {tasks[holding[w]].task_id}
    /\ pc' = [pc EXCEPT ![w] = "run"]
    /\ UNCHANGED <<task_counter, task_queue, completed_tasks, stats, eventVars,
                   holding, add_raised, waitVars, addVars, ureg, cleanupVars, callVars>>

\* MarkedTask with an except clause that leaves completed_time unset
MarkedWithoutTime(task, o, t) ==
    IF o = "ok"
    THEN [task EXCEPT !.status = "completed", !.progress = <<1, 1>>,
                      !.completed_time = t]
    ELSE [task EXCEPT !.status = "failed", !.error_message = "str(e)"]

\* the status and message _process_task gives a task whose conversion ended o:
\* success (336-339), a False result (358, then 360-363), an exception (360-363);
\* str(e) of an exception of this program is never empty
MarkedTask(task, o, t) ==
    IF o = "ok"
    THEN [task EXCEPT !.status = "completed", !.progress = <<1, 1>>,
                      !.completed_time = t]
    ELSE [task EXCEPT !.status = "failed", !.completed_time = t,
                      !.error_message = "str(e)"]

\* _process_task, lines 307-339 and 360-363: the conversion ends with outcome o
\* and the task gets its status, completion time and message
WorkerMark(w, o) ==
    /\ pc[w] = "run"
    /\ \E t \in NowValues :
         /\ clock' = t
         /\ tasks' = [tasks EXCEPT ![holding[w]] = MarkedTask(@, o, t)]
    /\ pc' = [pc EXCEPT ![w] = "marked"]
    /\ UNCHANGED <<task_counter, task_queue, active_tasks, completed_tasks, stats,
                   eventVars, holding, started_count, cancel_pending, add_raised,
                   waitVars, addVars, ureg, cleanupVars, callVars>>

\* processing_time of lines 346 and 365
ProcessingTime(task) == task.completed_time - task.started_time

\* ConversionStats.update_completion(task, processing_time); the average is
\* the quotient total_processing_time / completed_tasks, kept as the pair
\* <<numerator, denominator>>
UpdateCompletion(s, status, processing_time) ==
    LET s1 == IF status = "completed" THEN [s EXCEPT !.completed_tasks = @ + 1]
              ELSE IF status = "failed" THEN [s EXCEPT !.failed_tasks = @ + 1]
              ELSE IF status = "cancelled" THEN [s EXCEPT !.cancelled_tasks = @ + 1]
              ELSE s
        s2 == [s1 EXCEPT !.total_processing_time = @ + processing_time]
    IN  IF s2.completed_tasks > 0
        THEN [s2 EXCEPT !.average_time_per_task =
                            <<s2.total_processing_time, s2.completed_tasks>>]
        ELSE s2

\* _process_task, lines 346-356 and 365-375: statistics, then the subscribers;
\* update_completion runs as one step (no other worker is inside it)
WorkerStats(w) ==
    /\ pc[w] = "marked"
    /\ stats' = UpdateCompletion(stats, tasks[holding[w]].status,
                                 ProcessingTime(tasks[holding[w]]))
    /\ pc' = [pc EXCEPT ![w] = "fin"]
    /\ UNCHANGED <<clock, task_counter, tasks, task_queue, active_tasks,
                   completed_tasks, eventVars, holding, started_count,
                   cancel_pending, add_raised, waitVars, addVars, ureg,
                   cleanupVars, callVars>>

\* what an update_completion step leaves alone
UpdFrame ==
    UNCHANGED <<clock, task_counter, tasks, task_queue, active_tasks,
                completed_tasks, eventVars, holding, started_count,
                cancel_pending, add_raised, waitVars, addVars, cleanupVars, callVars>>

\* the counter update_completion increments for a status (lines 55-60)
CounterOf(status) ==
    IF status = "completed" THEN "completed_tasks"
    ELSE IF status = "failed" THEN "failed_tasks"
    ELSE IF status = "cancelled" THEN "cancelled_tasks"
    ELSE "none"

\* update_completion statement by statement, several workers inside it.
\* Lines 55-60, self.<counter> += 1: the status test and the load
UpdLoadCounter(w) ==
    /\ pc[w] = "marked"
    /\ LET f == CounterOf(tasks[holding[w]].status)
       IN  ureg' = [ureg EXCEPT ![w] =
                       [field |-> f, a |-> IF f = "none" THEN 0 ELSE stats[f],
                        b |-> 0]]
    /\ pc' = [pc EXCEPT ![w] = "upd1"]
    /\ UNCHANGED stats
    /\ UpdFrame

\* lines 55-60: the store
UpdStoreCounter(w) ==
    /\ pc[w] = "upd1"
    /\ stats' = IF ureg[w].field = "none" THEN stats
                ELSE [stats EXCEPT ![ureg[w].field] = ureg[w].a + 1]
    /\ pc' = [pc EXCEPT ![w] = "upd2"]
    /\ ureg' = [ureg EXCEPT ![w] = NoOperands]
    /\ UpdFrame

\* line 62, self.total_processing_time += processing_time: the load
UpdLoadTotal(w) ==
    /\ pc[w] = "upd2"
    /\ ureg' = [ureg EXCEPT ![w].a = stats.total_processing_time]
    /\ pc' = [pc EXCEPT ![w] = "upd3"]
    /\ UNCHANGED stats
    /\ UpdFrame

\* line 62: the store
UpdStoreTotal(w) ==
    /\ pc[w] = "upd3"
    /\ stats' = [stats EXCEPT !.total_processing_time =
                                 ureg[w].a + ProcessingTime(tasks[holding[w]])]
    /\ pc' = [pc EXCEPT ![w] = "upd4"]
    /\ ureg' = [ureg EXCEPT ![w] = NoOperands]
    /\ UpdFrame

\* line 63: if self.completed_tasks > 0
UpdTest(w) ==
    /\ pc[w] = "upd4"
    /\ pc' = [pc EXCEPT ![w] = IF stats.completed_tasks > 0 THEN "upd5" ELSE "fin"]
    /\ UNCHANGED <<stats, ureg>>
    /\ UpdFrame

\* line 64: the load of self.total_processing_time
UpdLoadNumerator(w) ==
    /\ pc[w] = "upd5"
    /\ ureg' = [ureg EXCEPT ![w].a = stats.total_processing_time]
    /\ pc' = [pc EXCEPT ![w] = "upd6"]
    /\ UNCHANGED stats
    /\ UpdFrame

\* line 64: the load of self.completed_tasks
UpdLoadDenominator(w) ==
    /\ pc[w] = "upd6"
    /\ ureg' = [ureg EXCEPT ![w].b = stats.completed_tasks]
    /\ pc' = [pc EXCEPT ![w] = "upd7"]
    /\ UNCHANGED stats
    /\ UpdFrame

\* line 64: the division and the store of self.average_time_per_task
UpdStoreAverage(w) ==
    /\ pc[w] = "upd7"
    /\ stats' = [stats EXCEPT !.average_time_per_task = <<ureg[w].a, ureg[w].b>>]
    /\ pc' = [pc EXCEPT ![w] = "fin"]
    /\ ureg' = [ureg EXCEPT ![w] = NoOperands]
    /\ UpdFrame

\* worker w is inside update_completion
InUpdate(w) == pc[w] \in {"upd1", "upd2", "upd3", "upd4", "upd5", "upd6", "upd7"}

\* _process_task's finally clause, lines 379-380: the task leaves the active map
WorkerLeaveActive(w) ==
    /\ pc[w] = "fin"
    /\ active_tasks' = active_tasks \ {tasks[holding[w]].task_id}
    /\ pc' = [pc EXCEPT ![w] = "left"]
    /\ UNCHANGED <<clock, task_counter, tasks, task_queue, completed_tasks, stats,
                   eventVars, holding, started_count, cancel_pending, add_raised,
                   waitVars, addVars, ureg, cleanupVars, callVars>>

\* dict[key] = value on the insertion-ordered completed map
DictSet(d, id) == IF id \in Range(d) THEN d ELSE Append(d, id)

\* the finally clause, line 381: the task enters the completed map; then
\* task_done and the next round of the worker's loop
WorkerFinalize(w) ==
    /\ pc[w] = "left"
    /\ completed_tasks' = DictSet(completed_tasks, tasks[holding[w]].task_id)
    /\ pc' = [pc EXCEPT ![w] = "wait"]
    /\ holding' = [holding EXCEPT ![w] = NoTask]
    /\ UNCHANGED <<clock, task_counter, tasks, task_queue, active_tasks, stats,
                   eventVars, started_count, cancel_pending, add_raised,
                   waitVars, addVars, ureg, cleanupVars, callVars>>

\* --------------------------------------------------- cleanup and waiting
\* sorted(completed_tasks.items(), key = completed_time, reverse = True): a
\* stable sort, so equal completion times keep the map's order
SortedByCompletedDesc(d) ==
    LET ct(i) == tasks[d[i]].completed_time
        rank(i) == Cardinality({j \in 1..Len(d) : ct(j) > ct(i)})
                   + Cardinality({j \in 1..(i - 1) : ct(j) = ct(i)}) + 1
    IN  [r \in 1..Len(d) |-> d[CHOOSE i \in 1..Len(d) : rank(i) = r]]

\* cleanup_completed_tasks(keep_recent), lines 478-486: the length test, the
\* sort of the map's items, tasks_to_keep = dict(sorted_tasks[:keep_recent]).
\* A call that finds at most keep_recent tasks returns and changes nothing.
CleanupSort(keep_recent) ==
    /\ cleanup_pc = "idle"
    /\ Len(completed_tasks) > keep_recent
    /\ tasks_to_keep' = SubSeq(SortedByCompletedDesc(completed_tasks), 1, keep_recent)
    /\ cleanup_pc' = "sorted"
    /\ UNCHANGED <<clock, task_counter, tasks, task_queue, active_tasks,
                   completed_tasks, stats, eventVars, pc, holding, started_count,
                   cancel_pending, add_raised, waitVars, addVars, ureg, callVars>>

\* cleanup_completed_tasks, line 489: self.completed_tasks = tasks_to_keep
CleanupAssign ==
    /\ cleanup_pc = "sorted"
    /\ completed_tasks' = tasks_to_keep
    /\ tasks_to_keep' = <<>>
    /\ cleanup_pc' = "idle"
    /\ UNCHANGED <<clock, task_counter, tasks, task_queue, active_tasks, stats,
                   eventVars, pc, holding, started_count, cancel_pending,
                   add_raised, waitVars, addVars, ureg, callVars>>

\* wait_for_completion(timeout) is called
WaitCall ==
    /\ wait_pc = "idle"
    /\ wait_pc' = "polling"
    /\ wait_base' = task_counter
    /\ UNCHANGED <<clock, task_counter, tasks, task_queue, active_tasks,
                   completed_tasks, stats, eventVars, pc, holding,
                   started_count, cancel_pending, add_raised, addVars, ureg,
                   cleanupVars, callVars>>

\* the condition wait_for_completion polls (line 463)
AllDone == task_queue = <<>> /\ active_tasks = {}

\* one round of wait_for_completion's loop: return True, or return False when
\* the timeout has elapsed (otherwise sleep and poll again, which changes nothing)
WaitPoll ==
    /\ wait_pc = "polling"
    /\ wait_pc' = IF AllDone THEN "true" ELSE "false"
    /\ UNCHANGED <<clock, task_counter, tasks, task_queue, active_tasks,
                   completed_tasks, stats, eventVars, pc, holding,
                   started_count, cancel_pending, add_raised, wait_base,
                   addVars, ureg, cleanupVars, callVars>>

\* ------------------------------------------------------------ specifications
\* The manager with its two workers, a caller that adds, cancels and waits,
\* and a clock that may or may not advance between two readings.
Next ==
    \/ \E p \in Priorities : task_counter < MaxTasks /\ AddTask(p)
    \/ \E id \in 1..MaxTasks : CancelTask(id)
    \/ \E w \in Workers : WorkerGet(w)
    \/ \E w \in Workers : WorkerStart(w)
    \/ \E w \in Workers, o \in Outcomes : WorkerMark(w, o)
    \/ \E w \in Workers : WorkerStats(w)
    \/ \E w \in Workers : WorkerLeaveActive(w)
    \/ \E w \in Workers : WorkerFinalize(w)
    \/ WaitCall
    \/ WaitPoll

Spec == Init /\ [][Next]_vars

\* The workers alone with a caller that only adds tasks
NextRun ==
    \/ \E p \in Priorities : task_counter < MaxTasks /\ AddTask(p)
    \/ \E w \in Workers : WorkerGet(w)
    \/ \E w \in Workers : WorkerStart(w)
    \/ \E w \in Workers, o \in Outcomes : WorkerMark(w, o)
    \/ \E w \in Workers : WorkerStats(w)
    \/ \E w \in Workers : WorkerLeaveActive(w)
    \/ \E w \in Workers : WorkerFinalize(w)

SpecRun == Init /\ [][NextRun]_vars

\* The same with one more task, and worker threads that are scheduled fairly
\* and converters that return: a worker that can take its next step takes it
LiveTasks == MaxTasks + 1

NextLive ==
    \/ \E p \in Priorities : task_counter < LiveTasks /\ AddTask(p)
    \/ \E w \in Workers : WorkerGet(w)
    \/ \E w \in Workers : WorkerStart(w)
    \/ \E w \in Workers, o \in Outcomes : WorkerMark(w, o)
    \/ \E w \in Workers : WorkerStats(w)
    \/ \E w \in Workers : WorkerLeaveActive(w)
    \/ \E w \in Workers : WorkerFinalize(w)

WorkerStep(w) ==
    \/ WorkerGet(w)
    \/ WorkerStart(w)
    \/ \E o \in Outcomes : WorkerMark(w, o)
    \/ WorkerStats(w)
    \/ WorkerLeaveActive(w)
    \/ WorkerFinalize(w)

SpecLive ==
    Init /\ [][NextLive]_vars /\ \A w \in Workers : WF_vars(WorkerStep(w))

\* A manager built with max_workers = 1 and auto_start = False: the caller adds
\* its tasks, then starts the worker, which empties the queue
NextQueue ==
    \/ \E p \in Priorities :
          /\ \A w \in Workers : pc[w] = "off"
          /\ task_counter < QueueTasks
          /\ AddTask(p)
    \/ StartWorkers(1)
    \/ \E w \in Workers : WorkerGet(w)
    \/ \E w \in Workers : WorkerStart(w)
    \/ \E w \in Workers, o \in Outcomes : WorkerMark(w, o)
    \/ \E w \in Workers : WorkerStats(w)
    \/ \E w \in Workers : WorkerLeaveActive(w)
    \/ \E w \in Workers : WorkerFinalize(w)

SpecQueue == InitNotStarted /\ [][NextQueue]_vars

\* Two threads that call add_task on a manager whose workers are not started
NextAdd ==
    \/ \E c \in Callers : AddCalls < MaxTasks /\ AddLoadCounter(c)
    \/ \E c \in Callers : AddStoreCounter(c)
    \/ \E c \in Callers, p \in Priorities : AddPut(c, p)
    \/ \E c \in Callers : AddLoadTotal(c)
    \/ \E c \in Callers : AddReturn(c)

SpecAdd == InitNotStarted /\ [][NextAdd]_vars

\* The two workers with update_completion statement by statement, and a caller
\* that adds tasks and cancels active ones
NextStats ==
    \/ \E p \in Priorities : task_counter < MaxTasks /\ AddTask(p)
    \/ \E id \in active_tasks : CancelTask(id)
    \/ \E w \in Workers : WorkerGet(w)
    \/ \E w \in Workers : WorkerStart(w)
    \/ \E w \in Workers, o \in Outcomes : WorkerMark(w, o)
    \/ \E w \in Workers : UpdLoadCounter(w)
    \/ \E w \in Workers : UpdStoreCounter(w)
    \/ \E w \in Workers : UpdLoadTotal(w)
    \/ \E w \in Workers : UpdStoreTotal(w)
    \/ \E w \in Workers : UpdTest(w)
    \/ \E w \in Workers : UpdLoadNumerator(w)
    \/ \E w \in Workers : UpdLoadDenominator(w)
    \/ \E w \in Workers : UpdStoreAverage(w)
    \/ \E w \in Workers : WorkerLeaveActive(w)
    \/ \E w \in Workers : WorkerFinalize(w)

SpecStats == Init /\ [][NextStats]_vars

\* The two workers, a caller that adds tasks, and a thread that calls
\* cleanup_completed_tasks while the workers run
NextCleanup ==
    \/ \E p \in Priorities : task_counter < LiveTasks /\ AddTask(p)
    \/ \E w \in Workers : WorkerGet(w)
    \/ \E w \in Workers : WorkerStart(w)
    \/ \E w \in Workers, o \in Outcomes : WorkerMark(w, o)
    \/ \E w \in Workers : WorkerStats(w)
    \/ \E w \in Workers : WorkerLeaveActive(w)
    \/ \E w \in Workers : WorkerFinalize(w)
    \/ \E k \in KeepChoices : CleanupSort(k)
    \/ CleanupAssign

SpecCleanup == Init /\ [][NextCleanup]_vars

\* A batch submitted to a fresh manager whose workers are not started
RECURSIVE SeqsUpTo(_, _)
SeqsUpTo(S, n) ==
    IF n = 0 THEN {<<>>}
    ELSE LET shorter == SeqsUpTo(S, n - 1)
         IN  shorter \cup {Append(q, x) : q \in shorter, x \in S}

InitBatch ==
    /\ Fields
    /\ pause_event = FALSE
    /\ shutdown_event = FALSE
    /\ pc = [w \in Workers |-> "off"]
    /\ call \in {[fn |-> "submit_batch_conversion", tasks |-> ts] :
                    ts \in SeqsUpTo({{}} \cup {{p} : p \in Priorities}, MaxBatch)}
    /\ ret = NoCall

NextBatch ==
    \/ SubmitBatchConversion
    \/ AddBatchStep
    \/ AddBatchReturn

SpecBatch == InitBatch /\ [][NextBatch]_vars

\* ------------------------------------------------------ the directory scanner
\* BatchProcessor.supported_modalities (line 103)
supported_modalities == {"CT", "MR", "MRI", "MG", "US", "RT", "RTSTRUCT", "RTPLAN", "RTDOSE"}

\* The files a scanned directory may hold, by what pydicom reads from their
\* headers: four series (CT, MRI, MR, and PT, which is not supported) of two
\* patients, and a file without the required tags
FileKinds ==
    {[series_uid |-> "1.1", modality |-> "CT", patient_id |-> "p1", tags |-> TRUE],
     [series_uid |-> "1.2", modality |-> "MRI", patient_id |-> "p2", tags |-> TRUE],
     [series_uid |-> "1.3", modality |-> "PT", patient_id |-> "p1", tags |-> TRUE],
     [series_uid |-> "1.4", modality |-> "MR", patient_id |-> "p2", tags |-> TRUE],
     [series_uid |-> "", modality |-> "", patient_id |-> "", tags |-> FALSE]}

\* the filter arguments: None, or a list (a set here: only membership is used)
NoFilter == {"None"}
ModalityFilters == {NoFilter, {}, {"CT"}, {"CT", "MRI"}}
PatientFilters == {NoFilter, {"p1"}}

\* _parse_dicom_file: the series information of a file, None (FALSE) for a
\* file that lacks a required tag or whose modality is not supported
ParseKeepsUnsupported(f) == f.tags

ParseDicomFile(f) == f.tags /\ f.modality \in supported_modalities

\* scan_directory, lines 150-153: "if filter and value not in filter: continue";
\* None and the empty list are both false
PassesFilter(filter, value) ==
    filter = NoFilter \/ filter = {} \/ value \in filter

\* scan_directory, lines 143-161: the loop over the files found, d the
\* series_dict built so far, as the sequence of its entries in insertion order
RECURSIVE GroupFiles(_, _, _, _, _)
GroupFiles(files, i, d, patient_filter, modality_filter) ==
    IF i > Len(files) THEN d
    ELSE LET f == files[i]
             keep == /\ ParseDicomFile(f)
                     /\ PassesFilter(patient_filter, f.patient_id)
                     /\ PassesFilter(modality_filter, f.modality)
             known == \E k \in 1..Len(d) : d[k].series_uid = f.series_uid
             d1 == IF ~keep THEN d
                   ELSE IF known
                   THEN [k \in 1..Len(d) |->
                            IF d[k].series_uid = f.series_uid
                            THEN [d[k] EXCEPT !.files = Append(@, i)]
                            ELSE d[k]]
                   ELSE Append(d, [series_uid |-> f.series_uid,
                                   modality |-> f.modality,
                                   patient_id |-> f.patient_id,
                                   files |-> <<i>>])
         IN  GroupFiles(files, i + 1, d1, patient_filter, modality_filter)

RECURSIVE SumFiles(_, _)
SumFiles(d, k) == IF k = 0 THEN 0 ELSE Len(d[k].files) + SumFiles(d, k - 1)

\* a sequence's elements that satisfy a test on their modality, in order
RECURSIVE OfModality(_, _)
OfModality(d, m) ==
    IF d = <<>> THEN <<>>
    ELSE IF Head(d).modality = m THEN <<Head(d)>> \o OfModality(Tail(d), m)
    ELSE OfModality(Tail(d), m)

\* line 199: sum(len(series_list) for series_list in series_by_modality.values())
RECURSIVE SumLens(_, _)
SumLens(by, keys) ==
    IF keys = {} THEN 0
    ELSE LET m == CHOOSE x \in keys : TRUE
         IN  Len(by[m]) + SumLens(by, keys \ {m})

\* scan_directory(root_path, patient_filter, modality_filter) over the files
\* _find_dicom_files returns: the BatchScanResult.  _parse_dicom_file catches
\* its own exceptions, so the loop's handler (lines 158-161) records no error.
ScanDirectory(files, patient_filter, modality_filter) ==
    LET d == GroupFiles(files, 1, <<>>, patient_filter, modality_filter)
        keys == {d[k].modality : k \in 1..Len(d)}
        by == [m \in keys |-> OfModality(d, m)]
    IN  [fn |-> "scan_directory",
         total_dicom_files |-> Len(files),
         valid_dicom_files |-> SumFiles(d, Len(d)),
         series_by_modality |-> by,
         total_series |-> SumLens(by, keys),
         scan_errors |-> <<>>]

ScanCall ==
    /\ call.fn = "scan_directory"
    /\ ret' = ScanDirectory(call.files, call.patient_filter, call.modality_filter)
    /\ call' = [call EXCEPT !.fn = "scanned"]
    /\ UNCHANGED <<clock, task_counter, tasks, task_queue, active_tasks,
                   completed_tasks, stats, eventVars, pc, holding, started_count,
                   cancel_pending, add_raised, waitVars, addVars, ureg,
                   cleanupVars>>

InitScan ==
    /\ Fields
    /\ pause_event = FALSE
    /\ shutdown_event = FALSE
    /\ pc = [w \in Workers |-> "off"]
    /\ call \in {[fn |-> "scan_directory", files |-> fs,
                  patient_filter |-> pf, modality_filter |-> mf] :
                    fs \in SeqsUpTo(FileKinds, MaxFiles),
                    pf \in PatientFilters, mf \in ModalityFilters}
    /\ ret = NoCall

SpecScan == InitScan /\ [][ScanCall]_vars

\* ------------------------------------------------- CT file discovery order
\* src/src/core/converters/ct_converter.py.  A found file is a record: what
\* its header says of InstanceNumber ("number": an integer value, "absent":
\* no such attribute, "empty": the attribute with an empty value, on which
\* int() raises) and the integer tokens of its file name, in order.
MaxSeries == 3

MaxInstance == 3

managerVars == <<clock, task_counter, tasks, task_queue, active_tasks,
                 completed_tasks, stats, eventVars, pc, holding, started_count,
                 cancel_pending, add_raised, waitVars, addVars, ureg,
                 cleanupVars>>

FileNames == {<<>>, <<1>>, <<2>>, <<7, 3>>}

CtFiles ==
    {[header |-> "number", instance |-> n, name |-> nm] :
        n \in 1..MaxInstance, nm \in FileNames}
    \cup {[header |-> h, instance |-> 0, name |-> nm] :
        h \in {"absent", "empty"}, nm \in FileNames}

\* re.findall(r'\d+', name)[-1], or 0 without digits (lines 140-141)
LastNumber(name) == IF name = <<>> THEN 0 ELSE name[Len(name)]

\* the pair's second component (lines 135-142): getattr's default 0 for a
\* header without the attribute, the file name only when the try block raises
InstanceKey(f) ==
    IF f.header = "number" THEN f.instance
    ELSE IF f.header = "absent" THEN 0
    ELSE LastNumber(f.name)

\* list.sort(key=...) is stable: the indices of keys in ascending key order,
\* equal keys in index order
StableOrder(keys) ==
    LET n == Len(keys)
        rank(i) == Cardinality({j \in 1..n :
                        \/ keys[j] < keys[i]
                        \/ keys[j] = keys[i] /\ j < i}) + 1
    IN  [k \in 1..n |-> CHOOSE i \in 1..n : rank(i) = k]

SortByInstanceNumber(files) ==
    StableOrder([i \in 1..Len(files) |-> InstanceKey(files[i])])

\* discover_files: nothing found raises ConversionError, else the sorted list
\* (as indices into the found list)
DiscoverFiles(files) ==
    IF files = <<>>
    THEN [fn |-> "discover_files", raised |-> TRUE, files |-> <<>>]
    ELSE [fn |-> "discover_files", raised |-> FALSE,
          files |-> SortByInstanceNumber(files)]

DiscoverCall ==
    /\ call.fn = "discover_files"
    /\ ret' = DiscoverFiles(call.files)
    /\ call' = [call EXCEPT !.fn = "discovered"]
    /\ UNCHANGED managerVars

InitDiscover ==
    /\ Fields
    /\ pause_event = FALSE
    /\ shutdown_event = FALSE
    /\ pc = [w \in Workers |-> "off"]
    /\ call \in {[fn |-> "discover_files", files |-> fs] :
                    fs \in SeqsUpTo(CtFiles, MaxSeries)}
    /\ ret = NoCall

SpecDiscover == InitDiscover /\ [][DiscoverCall]_vars

\* --------------------------------------------------------- contours to masks
\* src/src/core/converters/radiotherapy_converter.py ("core") and
\* src/legacy/dicom2nii_breast_rd_rp_rs.py ("legacy").  A contour is a closed
\* rectangle given by its four corner points (x, y, z) in mm; the volume has
\* MaxSlices slices of GridSize x GridSize voxels; a mask is the set of the
\* voxels <<slice, row, col>> set to 1.
GridSize == 6

MaxSlices == 2

\* range(-3, 4) of the legacy dilation (lines 228-229)
Dilation == 3

\* int(x / spacing) of a difference: truncation toward zero
Trunc(a, b) == IF a >= 0 THEN a \div b ELSE -((-a) \div b)

ContourData(x0, x1, y0, y1, z) ==
    << <<x0, y0, z>>, <<x0, y1, z>>, <<x1, y1, z>>, <<x1, y0, z>> >>

\* the core converter allocates the zero mask and passes over every contour
\* (lines 182-196): nothing is ever filled
CoreMask(contour_data, shape) == {}

\* the legacy fill (lines 191-233): the contour's points that fall inside the
\* image, and the 7 x 7 neighbourhood of each
LegacyMask(contour_data, shape, origin, spacing) ==
    LET slice_index == Trunc(contour_data[1][3] - origin, spacing)
        pixel_coords ==
            [k \in 1..Len(contour_data) |->
                <<Trunc(contour_data[k][2] - origin, spacing),
                  Trunc(contour_data[k][1] - origin, spacing)>>]
        inside == {k \in 1..Len(contour_data) :
                      /\ 0 <= pixel_coords[k][1] /\ pixel_coords[k][1] < shape[2]
                      /\ 0 <= pixel_coords[k][2] /\ pixel_coords[k][2] < shape[3]}
    IN  IF 0 <= slice_index /\ slice_index < shape[1]
           /\ Cardinality(inside) > 2
        THEN {<<slice_index, pixel_coords[k][1] + i, pixel_coords[k][2] + j>> :
                 k \in inside, i \in -Dilation..Dilation,
                 j \in -Dilation..Dilation}
             \cap ({slice_index} \X (0..(shape[2] - 1)) \X (0..(shape[3] - 1)))
        ELSE {}

ConvertRtstructToMasks(c) ==
    [fn |-> "convert_rtstruct_to_masks",
     mask |-> IF c.impl = "core" THEN CoreMask(c.contour_data, c.shape)
              ELSE LegacyMask(c.contour_data, c.shape, c.origin, c.spacing)]

MaskCall ==
    /\ call.fn = "convert_rtstruct_to_masks"
    /\ ret' = ConvertRtstructToMasks(call)
    /\ call' = [call EXCEPT !.fn = "masked"]
    /\ UNCHANGED managerVars

InitMask ==
    /\ Fields
    /\ pause_event = FALSE
    /\ shutdown_event = FALSE
    /\ pc = [w \in Workers |-> "off"]
    /\ call \in {[fn |-> "convert_rtstruct_to_masks", impl |-> m,
                  contour_data |-> ContourData(x0, x1, y0, y1, z),
                  shape |-> <<MaxSlices, GridSize, GridSize>>,
                  origin |-> 0, spacing |-> 1] :
                    m \in {"core", "legacy"},
                    x0 \in 0..GridSize, x1 \in 0..GridSize,
                    y0 \in 0..GridSize, y1 \in 0..GridSize,
                    z \in 0..MaxSlices}
    /\ ret = NoCall

SpecMask == InitMask /\ [][MaskCall]_vars

\* ------------------------------------------------- intensity discretization
\* src/src/utils/image_processing.py ("utils") and
\* src/src/converters/dicom_converter.py ("dicom").  An image is a row of
\* pixel values 0..MaxValue of an integer or a floating pixel type; the bin
\* width or count is given in halves (value2 = 2 * value).
MaxPixels == 3

MaxValue == 4

MaxWidth2 == 4

\* one repetition of SimpleITK's BinomialBlur along the row, on numerators
\* over a common denominator that the repetition multiplies by 4: a forward
\* pass averaging each pixel with its successor, then a backward pass
\* averaging each pixel with its predecessor
BlurOnce(a) ==
    LET n == Len(a)
        b == [i \in 1..n |-> IF i < n THEN a[i] + a[i + 1] ELSE 2 * a[i]]
    IN  [i \in 1..n |-> IF i > 1 THEN b[i] + b[i - 1] ELSE 2 * b[i]]

RECURSIVE BlurTimes(_, _)
BlurTimes(a, repetitions) ==
    IF repetitions = 0 THEN a ELSE BlurTimes(BlurOnce(a), repetitions - 1)

RECURSIVE Pow4(_)
Pow4(n) == IF n = 0 THEN 1 ELSE 4 * Pow4(n - 1)

\* sitk.BinomialBlur(image, repetitions): the blurred row, cast back to the
\* image's pixel type; the result is image / unit
BinomialBlur(image, pixel, repetitions) ==
    LET blurred == BlurTimes(image, repetitions)
        unit == Pow4(repetitions)
    IN  IF pixel = "int"
        THEN [image |-> [i \in 1..Len(image) |-> blurred[i] \div unit],
              unit |-> 1]
        ELSE [image |-> blurred, unit |-> unit]

\* utils.discretize_intensity (lines 103-116): FixedBinWidth blurs the image
\* int(value) times; FixedBinCount asks SimpleITK for DiscretizeImageFilter,
\* which it does not have; any other method returns the image
DiscretizeIntensity(c) ==
    IF c.method = "FixedBinWidth"
    THEN [fn |-> "discretize_intensity", raised |-> FALSE]
         @@ BinomialBlur(c.image, c.pixel, c.value2 \div 2)
    ELSE IF c.method = "FixedBinCount"
    THEN [fn |-> "discretize_intensity", raised |-> TRUE,
          image |-> <<>>, unit |-> 1]
    ELSE [fn |-> "discretize_intensity", raised |-> FALSE,
          image |-> c.image, unit |-> 1]

\* DicomConverter._discretize_intensity (lines 543-556): both methods ask
\* SimpleITK for Discretize, which it does not have
DicomDiscretizeIntensity(c) ==
    IF c.method \in {"FixedBinWidth", "FixedBinCount"}
    THEN [fn |-> "discretize_intensity", raised |-> TRUE,
          image |-> <<>>, unit |-> 1]
    ELSE [fn |-> "discretize_intensity", raised |-> FALSE,
          image |-> c.image, unit |-> 1]

DiscretizeCall ==
    /\ call.fn = "discretize_intensity"
    /\ ret' = IF call.impl = "utils" THEN DiscretizeIntensity(call)
              ELSE DicomDiscretizeIntensity(call)
    /\ call' = [call EXCEPT !.fn = "discretized"]
    /\ UNCHANGED managerVars

InitDiscretize ==
    /\ Fields
    /\ pause_event = FALSE
    /\ shutdown_event = FALSE
    /\ pc = [w \in Workers |-> "off"]
    /\ call \in {[fn |-> "discretize_intensity", impl |-> m, method |-> d,
                  pixel |-> t, image |-> im, value2 |-> v] :
                    m \in {"utils", "dicom"},
                    d \in {"FixedBinWidth", "FixedBinCount", "Other"},
                    t \in {"int", "float"},
                    im \in SeqsUpTo(0..MaxValue, MaxPixels),
                    v \in 2..MaxWidth2}
    /\ ret = NoCall

SpecDiscretize == InitDiscretize /\ [][DiscretizeCall]_vars

\* ---------------------------------------------------- orientation correction
\* src/src/core/converters/mammography_converter.py ("core") and
\* src/src/converters/dicom_converter.py ("dicom").  A grid is a sequence of
\* H rows of W pixels.
MaxSide == 2

view_positions == {"LMLO", "RMLO", "LCC", "RCC"}

MriSequences == {"DCE", "DWI", "ADC"}

Grids ==
    UNION {[1..h -> [1..w -> {0, 1}]] : h \in 1..MaxSide, w \in 1..MaxSide}

Height(m) == Len(m)

Width(m) == Len(m[1])

\* numpy's transpose and flips of a 2-D array
Transpose(m) ==
    [i \in 1..Width(m) |-> [j \in 1..Height(m) |-> m[j][i]]]

FlipUd(m) == [i \in 1..Height(m) |-> m[Height(m) + 1 - i]]

FlipLr(m) ==
    [i \in 1..Height(m) |-> [j \in 1..Width(m) |-> m[i][Width(m) + 1 - j]]]

\* numpy.rot90(m, k) on axes (0, 1)
Rot90(m, k) ==
    LET q == k % 4
    IN  IF q = 0 THEN m
        ELSE IF q = 2 THEN FlipLr(FlipUd(m))
        ELSE IF q = 1 THEN Transpose(FlipLr(m))
        ELSE FlipLr(Transpose(m))

\* a correction that mirrors instead of rotating
CorrectByMirror(impl, img_array, view_position) ==
    IF view_position \in view_positions THEN FlipLr(img_array) ELSE img_array

\* MammographyConverter.correct_image_orientation (lines 229-250) and
\* DicomConverter._correct_image_orientation (lines 97-107)
CorrectImageOrientation(impl, img_array, view_position) ==
    IF view_position \in view_positions THEN Rot90(img_array, -1)
    ELSE IF impl = "dicom" /\ view_position \in MriSequences
    THEN FlipLr(Rot90(img_array, 1))
    ELSE img_array

CorrectCall ==
    /\ call.fn = "correct_image_orientation"
    /\ call.applied < 2
    /\ ret' = [fn |-> "correct_image_orientation",
               img_array |-> CorrectImageOrientation(
                   call.impl, call.img_array, call.view_position)]
    /\ call' = [call EXCEPT !.img_array = ret'.img_array, !.applied = @ + 1]
    /\ UNCHANGED managerVars

InitCorrect ==
    /\ Fields
    /\ pause_event = FALSE
    /\ shutdown_event = FALSE
    /\ pc = [w \in Workers |-> "off"]
    /\ call \in {[fn |-> "correct_image_orientation", impl |-> m,
                  original |-> g, img_array |-> g, view_position |-> v,
                  applied |-> 0] :
                    m \in {"core", "dicom"}, g \in Grids,
                    v \in view_positions \cup {"DCE", "UNKNOWN"}}
    /\ ret = NoCall

SpecCorrect == InitCorrect /\ [][CorrectCall]_vars

\* --------------------------------------------------------- modality detection
\* ConversionManager._detect_modality and _detect_modality_from_dicom.  An
\* input is a path (one name out of PathNames, and what the path is: a
\* directory with files, an empty directory, a .dcm file, another file), the
\* Modality tag of the header of its (first) file, "" when the header has
\* none or cannot be read, and a descriptive header field.
PathNames == {"study", "ct_head", "mr_brain", "breast", "rtdose"}

\* str.upper() on the strings of this model
Upper(name) ==
    CASE name = "study" -> "STUDY"
      [] name = "ct_head" -> "CT_HEAD"
      [] name = "mr_brain" -> "MR_BRAIN"
      [] name = "breast" -> "BREAST"
      [] name = "rtdose" -> "RTDOSE"
      [] name = "ct chest" -> "CT CHEST"
      [] name = "t2 flair" -> "T2 FLAIR"
      [] name = "ct" -> "CT"
      [] OTHER -> name

\* the keywords of the tables of lines 398-411 that are substrings of a string
KeywordsIn(str) ==
    CASE str = "CT_HEAD" -> {"CT"}
      [] str = "MR_BRAIN" -> {"MR"}
      [] str = "BREAST" -> {"BREAST"}
      [] str = "RTDOSE" -> {"RT", "RTDOSE"}
      [] str = "CT CHEST" -> {"CT"}
      [] str = "T2 FLAIR" -> {"T2", "FLAIR"}
      [] OTHER -> {}

ct_keywords == {"CT", "HEAD-CT", "BASELINE-HEAD-CT"}

mri_keywords == {"MRI", "MR", "DCE", "DWI", "ADC", "T1", "T2", "FLAIR"}

mg_keywords == {"MG", "MAMMOGRAPHY", "BREAST", "MLO", "CC"}

rt_keywords == {"RT", "RTSTRUCT", "RTPLAN", "RTDOSE"}

\* the keyword tests of lines 398-411, in their order; "None" without a match
KeywordModality(str) ==
    IF KeywordsIn(str) \cap ct_keywords # {} THEN "CT"
    ELSE IF KeywordsIn(str) \cap mri_keywords # {} THEN "MRI"
    ELSE IF KeywordsIn(str) \cap mg_keywords # {} THEN "MG"
    ELSE IF KeywordsIn(str) \cap rt_keywords # {} THEN "RT"
    ELSE "None"

\* _detect_modality_from_dicom: the header's tag mapped to a modality; no
\* tag, an unreadable file and any other tag give None
DetectModalityFromDicom(tag) ==
    IF tag = "CT" THEN "CT"
    ELSE IF tag \in {"MR", "MRI"} THEN "MRI"
    ELSE IF tag = "MG" THEN "MG"
    ELSE IF tag \in {"RTSTRUCT", "RTPLAN", "RTDOSE"} THEN "RT"
    ELSE "None"

\* _detect_modality: the path's keywords first, then the header of the first
\* file of a directory or of a .dcm / .dicom file
DetectModality(input) ==
    IF KeywordModality(Upper(input.name)) # "None"
    THEN KeywordModality(Upper(input.name))
    ELSE IF input.kind \in {"dir", "dcm"}
    THEN DetectModalityFromDicom(input.tag)
    ELSE "None"

DetectCall ==
    /\ call.fn = "_detect_modality"
    /\ ret' = [fn |-> "_detect_modality", modality |-> DetectModality(call.input)]
    /\ call' = [call EXCEPT !.fn = "detected"]
    /\ UNCHANGED managerVars

Inputs ==
    {[name |-> n, kind |-> k, tag |-> t, description |-> d] :
        n \in PathNames, k \in {"dir", "empty_dir", "dcm", "other"},
        t \in {"", "CT", "MR", "MG", "RTDOSE", "PT"},
        d \in {"", "ct chest", "t2 flair"}}

InitDetect ==
    /\ Fields
    /\ pause_event = FALSE
    /\ shutdown_event = FALSE
    /\ pc = [w \in Workers |-> "off"]
    /\ call \in {[fn |-> "_detect_modality", input |-> i] : i \in Inputs}
    /\ ret = NoCall

SpecDetect == InitDetect /\ [][DetectCall]_vars

\* ------------------------------------------------- routing and notification
\* _process_task's body for one task: the task's modality, auto_detect flag
\* and input path as add_task got them, what the converter's conversion does
\* once it is called, and the subscribers registered with
\* add_progress_callback, add_completion_callback and add_error_callback,
\* each either returning ("ok") or raising an Exception ("raise").
MaxSubscribers == 2

Subscribers == {"ok", "raise"}

TaskModalities == {"None", "ct", "PET"}

TaskInputs ==
    {i \in Inputs : /\ i.description = ""
                    /\ i.tag = ""
                    /\ i.kind = "dir"
                    /\ i.name \in {"study", "ct_head"}}

\* the keys of CONVERTER_REGISTRY
CONVERTER_REGISTRY ==
    {"CT", "MRI", "MR", "MG", "MAMMOGRAPHY", "RT", "RTSTRUCT", "RTPLAN", "RTDOSE"}

\* str(e) of the exceptions _process_task can catch
StrOf(error) ==
    CASE error = "UnsupportedModalityError" -> "[UNSUPPORTED_MODALITY]"
      [] error = "ConversionError" -> "[CONVERSION_ERROR]"
      [] error = "ValueError" -> "unsupported modality type"
      [] error = "AttributeError" -> "object has no attribute"
      [] OTHER -> "str(e)"

\* a notification loop that lets a subscriber's exception out: the subscribers
\* up to the first that raises are called
NotifyUnguarded(subscribers) ==
    LET raising == {k \in 1..Len(subscribers) : subscribers[k] = "raise"}
        first == IF raising = {} THEN Len(subscribers)
                 ELSE CHOOSE k \in raising : \A j \in raising : k <= j
    IN  [called |-> [k \in 1..first |-> k], raised |-> raising # {}]

\* the notification loops of lines 322-326, 352-356 and 371-375: each
\* subscriber is called inside its own try / except Exception
Notify(subscribers) ==
    [called |-> [k \in 1..Len(subscribers) |-> k], raised |-> FALSE]

\* <<event, k>> for the subscribers a loop has called
Calls(event, n) == [k \in 1..Len(n.called) |-> <<event, n.called[k]>>]

\* lines 311-334: the modality after auto-detection, and where the task's
\* processing ends before or at the conversion: the exception raised ("" for
\* none), whether the converter was called, the progress subscribers called
Routed(c) ==
    LET detecting == c.auto_detect /\ c.modality = "None"
        modality == IF detecting THEN DetectModality(c.input) ELSE c.modality
        progress == Notify(c.progress_callbacks)
    IN  IF detecting /\ modality = "None"
        THEN [error |-> "UnsupportedModalityError", invoked |-> FALSE,
              called |-> <<>>]
        ELSE IF modality = "None"
        THEN [error |-> "AttributeError", invoked |-> FALSE, called |-> <<>>]
        ELSE IF Upper(modality) \notin CONVERTER_REGISTRY
        THEN [error |-> "ValueError", invoked |-> FALSE, called |-> <<>>]
        ELSE [error |-> IF progress.raised \/ c.convert = "raise"
                        THEN "Exception"
                        ELSE IF c.convert = "false" THEN "ConversionError"
                        ELSE "",
              invoked |-> TRUE, called |-> Calls("progress", progress)]

\* _process_task, lines 307-339 and 360-363, with the routing spelled out
ProcessConvert(w) ==
    /\ pc[w] = "run"
    /\ call.fn = "add_task"
    /\ LET r == Routed(call)
       IN  /\ \E t \in NowValues :
                /\ clock' = t
                /\ tasks' = [tasks EXCEPT ![holding[w]] =
                      IF r.error = ""
                      THEN [@ EXCEPT !.status = "completed",
                                     !.progress = <<1, 1>>,
                                     !.completed_time = t]
                      ELSE [@ EXCEPT !.status = "failed",
                                     !.completed_time = t,
                                     !.error_message = StrOf(r.error)]]
           /\ ret' = [fn |-> "_process_task"] @@ r
    /\ pc' = [pc EXCEPT ![w] = "marked"]
    /\ UNCHANGED <<task_counter, task_queue, active_tasks, completed_tasks, stats,
                   eventVars, holding, started_count, cancel_pending, add_raised,
                   waitVars, addVars, ureg, cleanupVars, call>>

\* _process_task, lines 346-356 and 365-375: statistics, then the completion
\* or the error subscribers.  An exception leaving the completion loop would
\* be caught by line 360 (failed, statistics again, error subscribers); one
\* leaving the error loop would leave _process_task through its finally clause
ProcessNotify(w) ==
    /\ pc[w] = "marked"
    /\ call.fn = "add_task"
    /\ LET task == tasks[holding[w]]
           s1 == UpdateCompletion(stats, task.status, ProcessingTime(task))
           completion == Notify(call.completion_callbacks)
           errors == Notify(call.error_callbacks)
       IN  IF task.status = "completed"
           THEN IF completion.raised
                THEN /\ tasks' = [tasks EXCEPT
                            ![holding[w]].status = "failed",
                            ![holding[w]].error_message = StrOf("Exception")]
                     /\ stats' = UpdateCompletion(s1, "failed",
                                                  ProcessingTime(task))
                     /\ ret' = [ret EXCEPT !.called =
                            @ \o Calls("completion", completion)
                              \o Calls("error", errors)]
                ELSE /\ stats' = s1
                     /\ ret' = [ret EXCEPT !.called =
                            @ \o Calls("completion", completion)]
                     /\ UNCHANGED tasks
           ELSE /\ stats' = s1
                /\ ret' = [ret EXCEPT !.called = @ \o Calls("error", errors)]
                /\ UNCHANGED tasks
    /\ pc' = [pc EXCEPT ![w] = "fin"]
    /\ UNCHANGED <<clock, task_counter, task_queue, active_tasks,
                   completed_tasks, eventVars, holding, started_count,
                   cancel_pending, add_raised, waitVars, addVars, ureg,
                   cleanupVars, call>>

\* a manager with one worker, the description of the task to add and the
\* registered subscribers
ProcessFields ==
    /\ Fields
    /\ pause_event = TRUE
    /\ shutdown_event = FALSE
    /\ pc = [w \in Workers |-> IF w = WorkerOrder[1] THEN "wait" ELSE "off"]
    /\ ret = NoCall

\* every kind of task, with error subscribers only
InitRoute ==
    /\ ProcessFields
    /\ call \in {[fn |-> "add_task", modality |-> m, auto_detect |-> a,
                  input |-> i, convert |-> o, progress_callbacks |-> <<>>,
                  completion_callbacks |-> <<>>, error_callbacks |-> es] :
                    m \in TaskModalities, a \in BOOLEAN, i \in TaskInputs,
                    o \in Outcomes,
                    es \in SeqsUpTo(Subscribers, MaxSubscribers)}

\* a task with an explicit modality, with every choice of subscribers
InitNotify ==
    /\ ProcessFields
    /\ call \in {[fn |-> "add_task", modality |-> m, auto_detect |-> FALSE,
                  input |-> i, convert |-> o, progress_callbacks |-> ps,
                  completion_callbacks |-> cs, error_callbacks |-> es] :
                    m \in TaskModalities \ {"None"},
                    i \in {j \in TaskInputs : j.name = "study"},
                    o \in Outcomes,
                    ps \in SeqsUpTo(Subscribers, MaxSubscribers),
                    cs \in SeqsUpTo(Subscribers, MaxSubscribers),
                    es \in SeqsUpTo(Subscribers, MaxSubscribers)}

NextProcess ==
    \/ \E p \in Priorities : task_counter = 0 /\ AddTask(p)
    \/ \E w \in Workers : WorkerGet(w)
    \/ \E w \in Workers : WorkerStart(w)
    \/ \E w \in Workers : ProcessConvert(w)
    \/ \E w \in Workers : ProcessNotify(w)
    \/ \E w \in Workers : WorkerLeaveActive(w)
    \/ \E w \in Workers : WorkerFinalize(w)

SpecRoute == InitRoute /\ [][NextProcess]_vars

SpecNotify == InitNotify /\ [][NextProcess]_vars

\* ------------------------------------------------- pause, resume and shutdown
\* The worker's loop (lines 276-295) position by position: "wait" is the
\* loop's test, "gate" the pause_event.wait() of line 279, "get" the
\* task_queue.get(timeout = 1.0) of line 286, "done" a thread that has left
\* the loop.
\* while not self.shutdown_event.is_set()
WorkerLoop(w) ==
    /\ pc[w] = "wait"
    /\ pc' = [pc EXCEPT ![w] = IF shutdown_event THEN "done" ELSE "gate"]
    /\ UNCHANGED <<clock, task_counter, tasks, task_queue, active_tasks,
                   completed_tasks, stats, eventVars, holding, started_count,
                   cancel_pending, add_raised, waitVars, addVars, ureg,
                   cleanupVars, callVars>>

\* pause_event.wait() returns once the event is set; then the shutdown check
\* of lines 281-282
WorkerGate(w) ==
    /\ pc[w] = "gate"
    /\ pause_event
    /\ pc' = [pc EXCEPT ![w] = IF shutdown_event THEN "done" ELSE "get"]
    /\ UNCHANGED <<clock, task_counter, tasks, task_queue, active_tasks,
                   completed_tasks, stats, eventVars, holding, started_count,
                   cancel_pending, add_raised, waitVars, addVars, ureg,
                   cleanupVars, callVars>>

\* task_queue.get(timeout = 1.0): an item, or queue.Empty after the timeout
\* and the next round of the loop; a TypeError of the heap goes to the loop's
\* except clause and the next round as well
WorkerDequeue(w) ==
    /\ pc[w] = "get"
    /\ IF task_queue = <<>>
       THEN /\ pc' = [pc EXCEPT ![w] = "wait"]
            /\ UNCHANGED <<task_queue, holding>>
       ELSE LET r == HeapPop(tasks, task_queue)
            IN  /\ task_queue' = r.heap
                /\ IF r.raised
                   THEN /\ pc' = [pc EXCEPT ![w] = "wait"]
                        /\ UNCHANGED holding
                   ELSE /\ pc' = [pc EXCEPT ![w] = "got"]
                        /\ holding' = [holding EXCEPT ![w] = r.item]
    /\ UNCHANGED <<clock, task_counter, tasks, active_tasks, completed_tasks,
                   stats, eventVars, started_count, cancel_pending, add_raised,
                   waitVars, addVars, ureg, cleanupVars, callVars>>

\* pause_processing()
PauseProcessing ==
    /\ pause_event' = FALSE
    /\ UNCHANGED <<clock, task_counter, tasks, task_queue, active_tasks,
                   completed_tasks, stats, shutdown_event, pc, holding,
                   started_count, cancel_pending, add_raised, waitVars, addVars,
                   ureg, cleanupVars, callVars>>

\* resume_processing()
ResumeProcessing ==
    /\ pause_event' = TRUE
    /\ UNCHANGED <<clock, task_counter, tasks, task_queue, active_tasks,
                   completed_tasks, stats, shutdown_event, pc, holding,
                   started_count, cancel_pending, add_raised, waitVars, addVars,
                   ureg, cleanupVars, callVars>>

\* stop_workers(), line 136: the shutdown signal; the joins follow
StopWorkers ==
    /\ call = NoCall
    /\ shutdown_event' = TRUE
    /\ call' = [fn |-> "stop_workers"]
    /\ UNCHANGED <<clock, task_counter, tasks, task_queue, active_tasks,
                   completed_tasks, stats, pause_event, pc, holding,
                   started_count, cancel_pending, add_raised, waitVars, addVars,
                   ureg, cleanupVars, ret>>

\* stop_workers(), lines 139-145: each join returns when its thread has ended
\* or after the timeout; the threads still alive are only logged
StopReturn ==
    /\ call.fn = "stop_workers"
    /\ call' = NoCall
    /\ ret' = [fn |-> "stop_workers",
               alive |-> {w \in Workers : pc[w] \notin {"off", "done"}}]
    /\ UNCHANGED managerVars

NextStop ==
    \/ \E p \in Priorities : task_counter = 0 /\ AddTask(p)
    \/ PauseProcessing
    \/ ResumeProcessing
    \/ StopWorkers
    \/ StopReturn
    \/ \E w \in Workers : WorkerLoop(w)
    \/ \E w \in Workers : WorkerGate(w)
    \/ \E w \in Workers : WorkerDequeue(w)
    \/ \E w \in Workers : WorkerStart(w)
    \/ \E w \in Workers, o \in Outcomes : WorkerMark(w, o)
    \/ \E w \in Workers : WorkerStats(w)
    \/ \E w \in Workers : WorkerLeaveActive(w)
    \/ \E w \in Workers : WorkerFinalize(w)

StopStep(w) ==
    \/ WorkerLoop(w)
    \/ WorkerGate(w)
    \/ WorkerDequeue(w)
    \/ WorkerStart(w)
    \/ \E o \in Outcomes : WorkerMark(w, o)
    \/ WorkerStats(w)
    \/ WorkerLeaveActive(w)
    \/ WorkerFinalize(w)

\* every worker thread is scheduled, and pause_event.set() wakes every thread
\* waiting on the event even when the event is cleared again at once; what
\* the callers do is up to them
SpecStop ==
    Init /\ [][NextStop]_vars /\ \A w \in Workers : SF_vars(StopStep(w))

\* ------------------------------------------------------------- edge scrubbing
\* MammographyConverter.remove_sensitive_info.  The grids are those of up to
\* MaxHeight rows and MaxWidth columns whose pixels are 1 but for one pixel 0.
MaxHeight == 10

MaxWidth == 20

\* the indices (from 1) that the slice [start:stop] selects out of n, as
\* Python resolves its bounds: a negative bound counts from the end, and
\* every bound is clipped to 0..n
SliceBound(n, b) == IF b < 0 THEN (IF n + b < 0 THEN 0 ELSE n + b)
                    ELSE IF b > n THEN n ELSE b

Slice(n, start, stop) == (SliceBound(n, start) + 1)..SliceBound(n, stop)

\* lines 203-223: the margins int(height * 0.1) and int(width * 0.05), and the
\* four slice assignments [:top], [-bottom:], [:, :left], [:, -right:]
RemoveSensitiveInfo(img_array) ==
    LET height == Height(img_array)
        width == Width(img_array)
        background_value ==
            CHOOSE v \in {img_array[i][j] : i \in 1..height, j \in 1..width} :
                \A i \in 1..height, j \in 1..width : v <= img_array[i][j]
        top_margin == (height * 10) \div 100
        bottom_margin == (height * 10) \div 100
        left_margin == (width * 5) \div 100
        right_margin == (width * 5) \div 100
        rows == Slice(height, 0, top_margin)
                    \cup Slice(height, -bottom_margin, height)
        cols == Slice(width, 0, left_margin)
                    \cup Slice(width, -right_margin, width)
    IN  [i \in 1..height |-> [j \in 1..width |->
            IF i \in rows \/ j \in cols THEN background_value
            ELSE img_array[i][j]]]

ScrubCall ==
    /\ call.fn = "remove_sensitive_info"
    /\ ret' = [fn |-> "remove_sensitive_info",
               img_array |-> RemoveSensitiveInfo(call.img_array)]
    /\ call' = [call EXCEPT !.fn = "scrubbed"]
    /\ UNCHANGED managerVars

InitScrub ==
    /\ Fields
    /\ pause_event = FALSE
    /\ shutdown_event = FALSE
    /\ pc = [w \in Workers |-> "off"]
    /\ call \in {[fn |-> "remove_sensitive_info",
                  img_array |-> [i \in 1..h |-> [j \in 1..w |->
                                    IF i = a /\ j = b THEN 0 ELSE 1]]] :
                    h \in 1..MaxHeight, w \in 1..MaxWidth,
                    a \in 1..MaxHeight, b \in 1..MaxWidth}
    /\ ret = NoCall

SpecScrub == InitScrub /\ [][ScrubCall]_vars

\* --------------------------------------------------------- progress reports
\* the percentages the converters pass to their progress callback: -1 on
\* failure, 0, 20, 100, and 30 + i * 40 for the i-th file of a radiotherapy
\* input (70 and 110 for the second and third)
Percentages == {-1, 0, 20, 70, 100, 110}

\* the closure progress_callback(progress, message) of lines 320-326, called
\* by the converter while the conversion runs: task.progress = progress /
\* 100.0, and that value is what every progress subscriber receives
ProgressCallback(w, progress) ==
    /\ pc[w] = "run"
    /\ call.fn = "add_task"
    /\ Routed(call).invoked
    /\ tasks' = [tasks EXCEPT ![holding[w]].progress = <<progress, 100>>]
    /\ UNCHANGED <<clock, task_counter, task_queue, active_tasks,
                   completed_tasks, stats, eventVars, pc, holding,
                   started_count, cancel_pending, add_raised, waitVars, addVars,
                   ureg, cleanupVars, callVars>>

NextProgress ==
    \/ NextProcess
    \/ \E w \in Workers, p \in Percentages : ProgressCallback(w, p)

SpecProgress == InitRoute /\ [][NextProgress]_vars

\* ------------------------------------------------------------ validation
\* src/src/core/converters/ct_converter.py, validate_dicom_files and
\* _validate_series_consistency; src/src/core/converters/base.py, convert.
\* Pixel spacings are counted in units of the tolerance 1e-6.

Tolerance == 1

Shapes == {<<1, 1>>, <<1, 2>>, <<2, 1>>}

PixelSpacings == {<<0, 0>>, <<1, 0>>, <<2, 0>>, <<0, 1>>, <<0, 2>>}

AllTags == {"Rows", "Columns", "PixelSpacing"}

\* the headers pydicom.dcmread hands back: complete ones, ones without
\* PixelSpacing, and one without Rows
Datasets ==
    {[tags |-> AllTags, Rows |-> s[1], Columns |-> s[2], PixelSpacing |-> p] :
        s \in Shapes, p \in PixelSpacings}
    \cup {[tags |-> {"Rows", "Columns"}, Rows |-> s[1], Columns |-> s[2],
           PixelSpacing |-> <<0, 0>>] : s \in Shapes}
    \cup {[tags |-> {"Columns", "PixelSpacing"}, Rows |-> 0, Columns |-> 1,
           PixelSpacing |-> <<0, 0>>]}

Abs(x) == IF x < 0 THEN -x ELSE x

\* the mutant of _validate_series_consistency: the spacing test is left out
ConsistencyOfShapeOnly(files, ref_ds) ==
    /\ AllTags \subseteq ref_ds.tags
    /\ \A i \in 2..Len(files) :
        /\ {"Rows", "Columns"} \subseteq files[i].tags
        /\ files[i].Rows = ref_ds.Rows
        /\ files[i].Columns = ref_ds.Columns

\* _validate_series_consistency (lines 192-214): every outcome but a full
\* pass of the loop is False, a missing attribute among them (the except
\* clause), so the result is the conjunction over files[1:]
ValidateSeriesConsistency(files, ref_ds) ==
    /\ AllTags \subseteq ref_ds.tags
    /\ \A i \in 2..Len(files) :
        /\ {"Rows", "Columns"} \subseteq files[i].tags
        /\ files[i].Rows = ref_ds.Rows
        /\ files[i].Columns = ref_ds.Columns
        /\ "PixelSpacing" \in files[i].tags =>
            /\ ~(Abs(files[i].PixelSpacing[1] - ref_ds.PixelSpacing[1])
                    > Tolerance)
            /\ ~(Abs(files[i].PixelSpacing[2] - ref_ds.PixelSpacing[2])
                    > Tolerance)

\* validate_dicom_files (lines 148-190): "ok" for True, otherwise the
\* validation_type of the DicomValidationError it raises
ValidateDicomFiles(files, modality) ==
    IF files = <<>> THEN "empty_file_list"
    ELSE IF ~(AllTags \subseteq files[1].tags) THEN "missing_attribute"
    ELSE IF modality # "absent" /\ modality \notin {"CT", "CBCT"}
        THEN "unsupported_modality"
    ELSE IF Len(files) > 1 /\ ~ValidateSeriesConsistency(files, files[1])
        THEN "series_inconsistency"
    ELSE "ok"

\* convert (base.py lines 191-284) over the files discover_files returned,
\* the later stages succeeding: the stages entered, and the result's
\* success and error_code
Convert(files, modality, validate_dicom) ==
    IF files = <<>>
    THEN [fn |-> "convert", success |-> FALSE,
          error_code |-> "CONVERSION_ERROR",
          stages |-> <<"discover_files">>]
    ELSE IF validate_dicom /\ ValidateDicomFiles(files, modality) # "ok"
    THEN [fn |-> "convert", success |-> FALSE,
          error_code |-> "DICOM_VALIDATION_ERROR",
          stages |-> <<"discover_files", "validate_dicom_files">>]
    ELSE [fn |-> "convert", success |-> TRUE, error_code |-> "None",
          stages |-> (IF validate_dicom
                      THEN <<"discover_files", "validate_dicom_files">>
                      ELSE <<"discover_files">>)
                     \o <<"extract_metadata", "process_image_data",
                          "save_nifti">>]

ConvertCall ==
    /\ call.fn = "convert"
    /\ ret' = Convert(call.files, call.modality, call.validate_dicom)
    /\ call' = [call EXCEPT !.fn = "converted"]
    /\ UNCHANGED managerVars

InitConvert ==
    /\ Fields
    /\ pause_event = FALSE
    /\ shutdown_event = FALSE
    /\ pc = [w \in Workers |-> "off"]
    /\ call \in {[fn |-> "convert", files |-> fs, modality |-> m,
                  validate_dicom |-> v] :
                    fs \in SeqsUpTo(Datasets, MaxSeries),
                    m \in {"CT", "PT"}, v \in BOOLEAN}
    /\ ret = NoCall

SpecConvert == InitConvert /\ [][ConvertCall]_vars

\* get_queue_status() (lines 244-253): the four counts it reports
GetQueueStatus ==
    [queue_size |-> Len(task_queue),
     active_tasks |-> Cardinality(active_tasks),
     completed_tasks |-> Cardinality(Range(completed_tasks)),
     total_tasks |-> stats.total_tasks]

\* The workers, a caller that adds tasks, and cancel_task calls for tasks
\* that are active (for any other task cancel_task changes nothing)
NextCancel ==
    \/ NextRun
    \/ \E id \in active_tasks : CancelTask(id)

SpecCancel == Init /\ [][NextCancel]_vars

\* ------------------------------------------------------- task generation
\* src/src/core/batch_processor.py, generate_conversion_tasks and
\* _calculate_priority.  A series is the record of its modality and its
\* number of files; its series_uid is its position in the scan result.
SeriesKinds ==
    {[modality |-> m, files |-> n] : m \in {"CT", "MR", "MG"}, n \in {9, 60}}

\* series_by_modality.items() hands the series out modality by modality
Grouped(s) ==
    \A i, j, k \in 1..Len(s) :
        (i < j /\ j < k /\ s[i].modality = s[k].modality)
            => s[j].modality = s[i].modality

ScanResults == {s \in SeqsUpTo(SeriesKinds, MaxBatch) : Grouped(s)}

\* selected_series: None, or a list of series_uids
Selections(n) ==
    {[given |-> FALSE, uids |-> {}]}
    \cup {[given |-> TRUE, uids |-> u] : u \in SUBSET (1..n)}

\* _calculate_priority (lines 437-448)
CalculatePriority(series) ==
    (IF series.modality \in {"CT", "MRI", "MR"} THEN 10 ELSE 0)
        + Min(series.files \div 10, 5)

\* generate_conversion_tasks (lines 214-285), the output directories being
\* creatable: `if selected_series and ...` skips a series only when the list
\* is non-empty
GenerateConversionTasks(scan_result, selected_series) ==
    LET Kept(i) == ~(selected_series.uids # {} /\ i \notin selected_series.uids)
        kept == SelectSeq([i \in 1..Len(scan_result) |-> i], Kept)
    IN  [k \in 1..Len(kept) |->
            [series_uid |-> kept[k],
             modality |-> scan_result[kept[k]].modality,
             auto_detect |-> FALSE,
             priority |-> CalculatePriority(scan_result[kept[k]]),
             file_count |-> scan_result[kept[k]].files]]

\* the caller generates the tasks and hands them to submit_batch_conversion
GenerateCall ==
    /\ call.fn = "generate_conversion_tasks"
    /\ LET infos == GenerateConversionTasks(call.scan_result,
                                            call.selected_series)
       IN  /\ ret' = [fn |-> "generate_conversion_tasks", tasks |-> infos]
           /\ call' = [fn |-> "submit_batch_conversion",
                       tasks |-> [k \in 1..Len(infos) |-> {infos[k].priority}],
                       scan_result |-> call.scan_result,
                       selected_series |-> call.selected_series]
    /\ UNCHANGED managerVars

InitGenerate ==
    /\ Fields
    /\ pause_event = FALSE
    /\ shutdown_event = FALSE
    /\ pc = [w \in Workers |-> "off"]
    /\ call \in {[fn |-> "generate_conversion_tasks", scan_result |-> s,
                  selected_series |-> sel] :
                    s \in ScanResults, sel \in Selections(MaxBatch)}
    /\ Len(call.scan_result) > 0
    /\ call.selected_series.uids \subseteq 1..Len(call.scan_result)
    /\ ret = NoCall

\* The tasks of one scan, generated, submitted to a manager whose worker is
\* started once add_batch_tasks is over, and processed
NextGenerate ==
    \/ GenerateCall
    \/ SubmitBatchConversion
    \/ AddBatchStep
    \/ AddBatchReturn
    \/ call = NoCall /\ StartWorkers(1)
    \/ \E w \in Workers : WorkerGet(w)
    \/ \E w \in Workers : WorkerStart(w)
    \/ \E w \in Workers, o \in Outcomes : WorkerMark(w, o)
    \/ \E w \in Workers : WorkerStats(w)
    \/ \E w \in Workers : WorkerLeaveActive(w)
    \/ \E w \in Workers : WorkerFinalize(w)

SpecGenerate == InitGenerate /\ [][NextGenerate]_vars

\* ------------------------------------------------------------------ claims
\* C1: a task's status only moves pending -> running -> completed / failed /
\* cancelled, and a completed, failed or cancelled status never changes again,
\* under every interleaving of the workers and cancel_task.
C1_StatusOnlyMovesForward ==
    [][\A i \in 1..Len(tasks) :
          tasks'[i].status # tasks[i].status =>
              \/ tasks[i].status = "pending" /\ tasks'[i].status = "running"
              \/ tasks[i].status = "running" /\ tasks'[i].status \in Terminal]_vars

\* C2: whenever a worker dequeues, the task it removes has the highest
\* priority among the tasks then in the queue and, among the tasks of that
\* priority, the earliest creation time.
C2_DequeuesBest ==
    [][\A w \in Workers :
          (pc[w] = "wait" /\ pc'[w] = "got") =>
              \A j \in Range(task_queue) :
                  \/ tasks[j].priority < tasks[holding'[w]].priority
                  \/ /\ tasks[j].priority = tasks[holding'[w]].priority
                     /\ tasks[j].created_time >= tasks[holding'[w]].created_time]_vars

\* C3: a task cancel_task was called for while it was still pending in the
\* queue never becomes running.
C3_CancelledPendingNeverRuns ==
    [][\A id \in cancel_pending : tasks'[id].status # "running"]_vars

C5_IdsIncreaseAndCount ==
    [][\A c \in Callers :
          (add_call[c].pc = "count" /\ add_call'[c].pc = "idle") =>
              /\ \A k \in 1..Len(returned) : returned[k] # add_call[c].id
              /\ add_call[c].id > add_call[c].floor
              /\ (\A d \in Callers : add_call'[d].pc = "idle")
                    => stats'.total_tasks = Len(returned')]_vars

\* C6: every task that was added eventually reaches completed or failed (the
\* workers scheduled fairly, no pause, no shutdown).
C6_EveryTaskFinishes ==
    \A i \in 1..LiveTasks :
        (Len(tasks) >= i) ~>
            (Len(tasks) >= i /\ tasks[i].status \in {"completed", "failed"})

\* C7: whenever a worker's update_completion returns, no other worker is
\* inside update_completion and completed_tasks is positive,
\* average_time_per_task is total_processing_time / completed_tasks.
C7_AverageIsQuotient ==
    [][\A w \in Workers :
          (/\ pc[w] \in {"upd4", "upd7"} /\ pc'[w] = "fin"
           /\ \A v \in Workers : ~InUpdate(v)'
           /\ stats'.completed_tasks > 0)
              => stats'.average_time_per_task[1] * stats'.completed_tasks
                    = stats'.total_processing_time * stats'.average_time_per_task[2]]_vars

\* C8: when wait_for_completion returns True, every task added before the call
\* is in a terminal status (in particular no worker holds a task it has dequeued
\* and not yet registered as active).
C8_WaitTrueMeansAllTerminal ==
    [][(wait_pc = "polling" /\ wait_pc' = "true") =>
          \A id \in 1..wait_base : tasks[id].status \in Terminal]_vars

\* C9: a failed task has a non-empty error_message; at the moment a task
\* fails get_task_status returns it; from then on get_task_status keeps
\* returning it until cleanup_completed_tasks replaces the completed map; and a
\* task that ended failed (it is in the completed map with that status) stays
\* failed.
C9_FailedStaysRetrievable ==
    [][\A i \in 1..Len(tasks) :
          /\ tasks'[i].status = "failed"
                => tasks'[i].error_message \notin {NoMessage, ""}
          /\ (tasks'[i].status = "failed" /\ tasks[i].status # "failed")
                => GetTaskStatus(i)' = i
          /\ (tasks[i].status = "failed" /\ GetTaskStatus(i) = i)
                => \/ GetTaskStatus(i)' = i
                   \/ cleanup_pc = "sorted" /\ cleanup_pc' = "idle"
          /\ (tasks[i].status = "failed" /\ i \in Range(completed_tasks))
                => tasks'[i].status = "failed"]_vars

\* C10: when cleanup_completed_tasks replaces the completed map, every task it
\* retains was in the map and completed no earlier than every task it discards.
C10_KeepsMostRecent ==
    [][(cleanup_pc = "sorted" /\ cleanup_pc' = "idle") =>
          /\ Range(completed_tasks') \subseteq Range(completed_tasks)
          /\ \A r \in Range(completed_tasks') :
                \A d \in Range(completed_tasks) \ Range(completed_tasks') :
                    tasks[r].completed_time >= tasks[d].completed_time]_vars

\* C11: add_batch_tasks on a fresh manager ends by returning one id per element
\* of its list, the ids 1, 2, ... in submission order, with the id counter,
\* total_tasks and the queue's length equal to the number of elements, as the
\* individual add_task calls leave them.
C11_BatchIsOneAddPerElement ==
    [][(call.fn = "add_batch_tasks" /\ call' = NoCall) =>
          /\ ~ret'.raised
          /\ ret'.task_ids = [k \in 1..Len(call.tasks) |-> k]
          /\ task_counter' = Len(call.tasks)
          /\ stats'.total_tasks = Len(call.tasks)
          /\ Len(task_queue') = Len(call.tasks)]_vars

C13_SortedByInstanceThenName ==
    (ret.fn = "discover_files" /\ ~ret.raised) =>
        LET files == call.files
            n == Len(files)
            key(i) == IF files[i].header = "number" THEN files[i].instance
                      ELSE LastNumber(files[i].name)
        IN  /\ Len(ret.files) = n
            /\ Range(ret.files) = 1..n
            /\ \A a, b \in 1..n : a < b =>
                  \/ key(ret.files[a]) < key(ret.files[b])
                  \/ /\ key(ret.files[a]) = key(ret.files[b])
                     /\ ret.files[a] < ret.files[b]
            /\ (/\ n = 3
                /\ \A i \in 1..n : files[i].header = "number"
                /\ <<files[1].instance, files[2].instance,
                      files[3].instance>> = <<3, 1, 2>>)
                  => ret.files = <<2, 3, 1>>

\* C14: for a rectangular contour with corners (x0, y0) .. (x1, y1) on the
\* 1 mm grid, the mask is 1 exactly on the voxels of the contour's slice whose
\* row lies in [y0, y1) and whose column lies in [x0, x1), and 0 on every
\* other voxel of the volume (the 10..20 mm square scaled to the grid).
C14_MaskIsPolygonInterior ==
    ret.fn = "convert_rtstruct_to_masks" =>
        LET d == call.contour_data
            z == d[1][3]
        IN  (d[1][1] < d[3][1] /\ d[1][2] < d[3][2] /\ z < call.shape[1]) =>
                ret.mask = {z} \X (d[1][2]..(d[3][2] - 1))
                               \X (d[1][1]..(d[3][1] - 1))

\* C15: fixed-bin-width discretization with width w returns, for each value
\* v of the image, the bin floor((v - min) / w), min being the smallest value
\* of the image (width 2 on [0, 1, 2, 3, 4] gives [0, 0, 1, 1, 2], the
\* example's width 25 on [0, 24, 25, 49, 50] scaled to the value range).
C15_BinIsFloorOfOffsetOverWidth ==
    (ret.fn = "discretize_intensity" /\ call.method = "FixedBinWidth"
        /\ call.image # <<>>) =>
        LET image == call.image
            lo == CHOOSE v \in Range(image) : \A u \in Range(image) : v <= u
            bin(v) == (2 * (v - lo)) \div call.value2
        IN  /\ ~ret.raised
            /\ Len(ret.image) = Len(image)
            /\ \A i \in 1..Len(image) : ret.image[i] = bin(image[i]) * ret.unit

\* C16: the orientation correction of a mammography view (LMLO, RMLO, LCC,
\* RCC) applied twice to an H x W grid gives the grid rotated by 180 degrees
\* (pixel (i, j) moves to (H + 1 - i, W + 1 - j)); for a view the corrector
\* does not know it returns the grid unchanged, however often it is applied.
C16_TwiceIsHalfTurn ==
    ret.fn = "correct_image_orientation" =>
        LET m == call.original
            h == Height(m)
            w == Width(m)
        IN  /\ (call.view_position \in view_positions /\ call.applied = 2) =>
                  ret.img_array =
                      [i \in 1..h |-> [j \in 1..w |-> m[h + 1 - i][w + 1 - j]]]
            /\ (call.view_position \notin view_positions \cup MriSequences) =>
                  ret.img_array = m

C16_Witness ==
    /\ ret.fn = "correct_image_orientation"
    /\ call.applied = 2
    /\ call.view_position = "LMLO"
    /\ call.original = <<<<0, 1>>, <<0, 0>>>>
    /\ ret.img_array = <<<<0, 0>>, <<1, 0>>>>

\* C18: the detected modality is the header tag's modality when the header
\* carries a supported tag; else the modality of a keyword found in the path;
\* else the modality of a keyword found in the descriptive header field; else
\* none.  It depends on the tag, the path and the description only.
C18_HeaderThenPathThenDescription ==
    ret.fn = "_detect_modality" =>
        LET i == call.input
        IN  ret.modality =
                IF DetectModalityFromDicom(i.tag) # "None"
                THEN DetectModalityFromDicom(i.tag)
                ELSE IF KeywordModality(Upper(i.name)) # "None"
                THEN KeywordModality(Upper(i.name))
                ELSE KeywordModality(Upper(i.description))

\* C17: a task whose modality auto-detection finds nothing, or whose modality
\* no converter is registered for, is finalized failed, with the
\* UnsupportedModalityError in error_message, a completion time, a place in
\* the completed map and none in the active map, every error subscriber
\* called, and no converter called.
C17_UnroutableFailsAsUnsupported ==
    (ret.fn = "_process_task" /\ pc[WorkerOrder[1]] = "wait") =>
        LET modality == IF call.auto_detect /\ call.modality = "None"
                        THEN DetectModality(call.input) ELSE call.modality
        IN  (modality = "None" \/ Upper(modality) \notin CONVERTER_REGISTRY) =>
                /\ tasks[1].status = "failed"
                /\ tasks[1].error_message = StrOf("UnsupportedModalityError")
                /\ tasks[1].completed_time # NoTime
                /\ 1 \in Range(completed_tasks)
                /\ 1 \notin active_tasks
                /\ \A k \in 1..Len(call.error_callbacks) :
                      <<"error", k>> \in Range(ret.called)
                /\ ~ret.invoked

C20_ShutdownEndsEveryWorker ==
    shutdown_event ~> (\A w \in Workers : pc[w] \in {"off", "done"})

\* C21: in a step that begins and ends with processing paused, no worker
\* takes an item off the queue and no task goes from pending to running.
C21_PausedMeansNoDequeue ==
    [][(~pause_event /\ ~pause_event') =>
          /\ Len(task_queue') >= Len(task_queue)
          /\ \A i \in 1..Len(tasks) :
                tasks[i].status = "pending" => tasks'[i].status # "running"]_vars

\* C22: a file without the required header fields is in no series of the
\* scan's result and has its entry in scan_errors, and the scan still returns
\* every other file that is supported and passes the filters.
C22_SkippedFilesAreRecorded ==
    ret.fn = "scan_directory" =>
        LET files == call.files
            by == ret.series_by_modality
            grouped == {i \in 1..Len(files) :
                           \E m \in DOMAIN by : \E k \in 1..Len(by[m]) :
                               i \in Range(by[m][k].files)}
            bad == {i \in 1..Len(files) : ~files[i].tags}
        IN  /\ bad \cap grouped = {}
            /\ Len(ret.scan_errors) >= Cardinality(bad)
            /\ \A i \in 1..Len(files) :
                  (/\ ParseDicomFile(files[i])
                   /\ PassesFilter(call.patient_filter, files[i].patient_id)
                   /\ PassesFilter(call.modality_filter, files[i].modality))
                     => i \in grouped

\* C23: edge scrubbing of an H x W grid gives the grid whose top and bottom
\* floor(H / 10) rows and left and right floor(W / 20) columns hold the
\* grid's minimum and whose other pixels are those of the input.
C23_ScrubsExactlyTheMargins ==
    ret.fn = "remove_sensitive_info" =>
        LET m == call.img_array
            h == Height(m)
            w == Width(m)
            lo == CHOOSE v \in {m[i][j] : i \in 1..h, j \in 1..w} :
                      \A i \in 1..h, j \in 1..w : v <= m[i][j]
            rows == h \div 10
            cols == w \div 20
        IN  ret.img_array = [i \in 1..h |-> [j \in 1..w |->
                IF \/ i <= rows \/ i > h - rows
                   \/ j <= cols \/ j > w - cols
                THEN lo ELSE m[i][j]]]

SeriesMatches(files) ==
    \A i \in 2..Len(files) :
        /\ {"Rows", "Columns"} \subseteq files[i].tags
        /\ files[i].Rows = files[1].Rows
        /\ files[i].Columns = files[1].Columns
        /\ "PixelSpacing" \in files[i].tags =>
            /\ "PixelSpacing" \in files[1].tags
            /\ \A k \in 1..2 :
                Abs(files[i].PixelSpacing[k] - files[1].PixelSpacing[k])
                    <= Tolerance

C26_StatusCountsBounded ==
    /\ \A i \in 1..Len(tasks) :
        Cardinality({k \in 1..Len(task_queue) : task_queue[k] = i})
          + (IF i \in active_tasks THEN 1 ELSE 0)
          + (IF i \in Range(completed_tasks) THEN 1 ELSE 0) <= 1
    /\ GetQueueStatus.queue_size + GetQueueStatus.active_tasks
          + GetQueueStatus.completed_tasks <= GetQueueStatus.total_tasks

\* C27: every task in the completed map has a terminal status, a
\* started_time and a completed_time with completed_time >= started_time,
\* and an error message when its status is failed; every task in the active
\* map has a started_time.
C27_FinishedTasksAreComplete ==
    /\ \A id \in Range(completed_tasks) :
        /\ tasks[id].status \in Terminal
        /\ tasks[id].started_time # NoTime
        /\ tasks[id].completed_time # NoTime
        /\ tasks[id].completed_time >= tasks[id].started_time
        /\ tasks[id].status = "failed" =>
              tasks[id].error_message \notin {"None", ""}
    /\ \A id \in active_tasks : tasks[id].started_time # NoTime

\* C27 witness: the completed map holds a failed task with its message and
\* its two times, and another task, cancelled after it started, is active.
C27_Witness ==
    /\ \E id \in Range(completed_tasks) :
        /\ tasks[id].status = "failed"
        /\ tasks[id].error_message = "str(e)"
        /\ tasks[id].completed_time > tasks[id].started_time
    /\ \E id \in active_tasks : tasks[id].status = "cancelled"

\* the finalized tasks whose final status is s
FinalizedAs(s) == {id \in Range(completed_tasks) : tasks[id].status = s}

\* C28: when no worker is inside _process_task, each of the counters
\* completed_tasks, failed_tasks and cancelled_tasks of the statistics equals
\* the number of finalized tasks with that final status, so their sum is the
\* number of finalized tasks.
C28_CountersMatchFinalized ==
    (\A w \in Workers : pc[w] = "wait") =>
        /\ stats.completed_tasks = Cardinality(FinalizedAs("completed"))
        /\ stats.failed_tasks = Cardinality(FinalizedAs("failed"))
        /\ stats.cancelled_tasks = Cardinality(FinalizedAs("cancelled"))
        /\ stats.completed_tasks + stats.failed_tasks + stats.cancelled_tasks
              = Cardinality(Range(completed_tasks))

\* C29: no add_task call raises, whatever priorities and creation times
\* the queued tasks have, and the task it made is in the queue afterwards;
\* and every get that takes an item out of the queue hands it to the worker.
C29_AddAndGetNeverRaise ==
    [][/\ add_raised' = add_raised
       /\ Len(tasks') > Len(tasks) => Len(tasks') \in Range(task_queue')
       /\ Len(task_queue') < Len(task_queue) =>
             \E w \in Workers : pc[w] = "wait" /\ pc'[w] = "got"]_vars

\* the series the caller selected: all of them without a selection
SelectedOf(c) ==
    IF c.selected_series.given THEN c.selected_series.uids
    ELSE 1..Len(c.scan_result)

HighModalities == {"CT", "MR", "MRI"}

\* C30: generate_conversion_tasks returns exactly one task per selected
\* series (per series when no selection is given), with auto_detect false,
\* the series' modality and a priority in 0..15 that is greater for every
\* CT/MR/MRI task than for every other task (so 10 and more for the former,
\* less than 10 for the latter); and once the tasks are queued, a worker
\* takes no task of another modality while a CT/MR/MRI task is still waiting.
C30_OneTaskPerSeriesHighFirst ==
    /\ (ret.fn = "generate_conversion_tasks"
            /\ call.fn = "submit_batch_conversion") =>
        /\ Len(ret.tasks) = Cardinality(SelectedOf(call))
        /\ \A u \in SelectedOf(call) :
              \E k \in 1..Len(ret.tasks) : ret.tasks[k].series_uid = u
        /\ \A k \in 1..Len(ret.tasks) :
              /\ ret.tasks[k].series_uid \in SelectedOf(call)
              /\ ~ret.tasks[k].auto_detect
              /\ ret.tasks[k].modality
                    = call.scan_result[ret.tasks[k].series_uid].modality
              /\ ret.tasks[k].priority \in 0..15
        /\ \A k, l \in 1..Len(ret.tasks) :
              (ret.tasks[k].modality \in HighModalities
                    /\ ret.tasks[l].modality \notin HighModalities)
                  => ret.tasks[k].priority > ret.tasks[l].priority
    /\ \A w \in Workers :
          (pc[w] = "got" /\ tasks[holding[w]].priority < 10) =>
              \A i \in 1..Len(tasks) :
                  (tasks[i].priority >= 10 /\ tasks[i].status = "pending")
                      => \E v \in Workers : holding[v] = i

====
